---- MODULE Spec2Model ----
(***************************************************************************)
(* Energy-aware task scheduling for a planetary rover.                     *)
(*                                                                         *)
(* The mission engine (sim/simulate_mission.py, models/rover_config.py,    *)
(* models/energy_model.py) is modelled as a state machine over the         *)
(* simulator's fields and the caller's Task objects.  The benchmark's      *)
(* scheduling policies (simple_validation.py) are modelled as operators    *)
(* and applied by the actions of SpecBench.                                *)
(*                                                                         *)
(* Numbers.  The program computes in binary floating point.  The model     *)
(* computes the same expressions over exact rationals [n, d] (d > 0, in    *)
(* lowest terms), so equalities and orderings are those of the real        *)
(* numbers the code's formulas denote; rounding error is not modelled.     *)
(* Energies are in kWh, durations in hours, powers in W, as in the code.   *)
(***************************************************************************)
EXTENDS Integers, Sequences, FiniteSets, TLC

\* ------------------------------------------------------------- bounds
\* Longest task list handed to run_mission_simulation.
MaxTasks == 3
\* Number of run_mission_simulation invocations on one simulator.
MaxRuns == 2
\* Number of direct execute_task calls a caller makes outside a run.
MaxDirectCalls == 1

\* Longest task list of a benchmark scenario.
MaxBenchTasks == 2

\* Most execute_task calls a caller makes on a simulator of its own.
MaxExampleCalls == 4

\* Longest lists handed to estimate_mission_energy.
MaxSegments == 2
MaxTaskDicts == 2

\* Longest group handed to calculate_cohens_d.
MaxGroup == 3

\* Most tasks of a generated scenario.
MaxGenTasks == 12

\* Trials of run_comprehensive_validation (num_trials).
MaxTrials == 3

\* Most tasks of a scenario the orders are compared on.
MaxGreedyTasks == 3

\* ------------------------------------------------- exact rationals
Abs(x) == IF x < 0 THEN -x ELSE x

RECURSIVE Gcd(_, _)
Gcd(a, b) == IF b = 0 THEN a ELSE Gcd(b, a % b)

\* n/d in lowest terms, d > 0.
Rat(n, d) ==
  LET g == Gcd(Abs(n), d) IN [n |-> n \div g, d |-> d \div g]

R(n) == [n |-> n, d |-> 1]
\* Sums and comparisons go through the common denominator's cofactors.
RAdd(a, b) ==
  LET g == Gcd(a.d, b.d)
  IN Rat(a.n * (b.d \div g) + b.n * (a.d \div g), (a.d \div g) * b.d)
RNeg(a) == [n |-> -a.n, d |-> a.d]
RSub(a, b) == RAdd(a, RNeg(b))
\* Products cancel across the factors before multiplying.
RMul(a, b) ==
  LET g1 == Gcd(Abs(a.n), b.d)
      g2 == Gcd(Abs(b.n), a.d)
  IN IF a.n = 0 \/ b.n = 0 THEN [n |-> 0, d |-> 1]
     ELSE [n |-> (a.n \div g1) * (b.n \div g2),
           d |-> (a.d \div g2) * (b.d \div g1)]
\* a / b for b # 0
RDiv(a, b) ==
  RMul(a, IF b.n > 0 THEN [n |-> b.d, d |-> b.n] ELSE [n |-> -b.d, d |-> -b.n])
RLeq(a, b) ==
  LET g == Gcd(a.d, b.d) IN a.n * (b.d \div g) <= b.n * (a.d \div g)
RLt(a, b) ==
  LET g == Gcd(a.d, b.d) IN a.n * (b.d \div g) < b.n * (a.d \div g)
RMax(a, b) == IF RLeq(a, b) THEN b ELSE a

RECURSIVE RSum(_)
RSum(s) == IF s = <<>> THEN R(0) ELSE RAdd(Head(s), RSum(Tail(s)))

\* ------------------------------------------------------------- state
VARIABLES
  config,                 \* the RoverConfig the simulator was constructed with
  task,                   \* the Task objects, by id
  current_battery_level,  \* MissionSimulator.current_battery_level
  completed_tasks,        \* MissionSimulator.completed_tasks (ids)
  deferred_tasks,         \* MissionSimulator.deferred_tasks (ids)
  mission_log,            \* MissionSimulator.mission_log
  pc,                     \* position in run_mission_simulation
  tasks,                  \* run_mission_simulation's argument
  terrain,                \* <<>> or <<profile>>: the terrain CSV, if given
  traversal_summary,      \* <<>> or <<summary>>
  prioritized_tasks,      \* the local prioritized_tasks
  idx,                    \* position of the for loop in prioritized_tasks
  mission_results,        \* <<>> or <<the returned dict>>
  runs,                   \* run_mission_simulation invocations so far
  direct_calls,           \* direct execute_task calls so far
  last_call,              \* <<>> or <<the latest execute_task call>>
  start_level,            \* battery level when the for loop was entered
  halt_idx,               \* loop position of the critical-energy break, or 0
  prev_summary,           \* <<>> or <<summary of the run before, same arguments>>
  scenario,               \* benchmark: the trial's scenario (energy_level, tasks)
  algorithm,              \* benchmark: name of the policy last run, or "none"
  ordered_tasks,          \* benchmark: the order that policy returned
  execution_result,       \* benchmark: <<>> or <<simulate_task_execution's dict>>
  test_result,            \* benchmark: <<>> or <<run_single_algorithm_test's dict>>
  trial_valid,            \* benchmark: no policy has raised in this trial
  energy_call,            \* <<>> or <<the caller's EnergyModel call and its outcome>>
  stats_call,             \* <<>> or <<the caller's calculate_cohens_d call and its value>>
  trial,                  \* trial loop: trials finished
  valid_trials,           \* trial loop: valid_trials
  all_results,            \* trial loop: all_results, by policy and metric
  trial_results,          \* trial loop: trial_results, in the order of the policies
  loop_pc                 \* trial loop: "loop" between trials, "policies" inside one

mvars ==
  <<config, task, current_battery_level, completed_tasks, deferred_tasks,
    mission_log, pc, tasks, terrain, traversal_summary, prioritized_tasks,
    idx, mission_results, runs, direct_calls, last_call, start_level,
    halt_idx, prev_summary>>

bvars ==
  <<scenario, algorithm, ordered_tasks, execution_result, test_result,
    trial_valid>>

\* Records of calls of the pure functions.
xvars == <<energy_call, stats_call>>

\* The loop over the trials.
tvars == <<trial, valid_trials, all_results, trial_results, loop_pc>>

vars == <<mvars, bvars, xvars, tvars>>

\* ------------------------------------------------------ RoverConfig
\* kWh
BATTERY_CAPACITY == Rat(4224, 100)
ENERGY_RESERVE_RATIO == Rat(20, 100)
CRITICAL_ENERGY_THRESHOLD == Rat(10, 100)

\* Task execution power requirements (W)
TASK_POWER ==
  [navigation |-> 50, sample_collection |-> 80, drilling |-> 120,
   imaging |-> 30, spectrometry |-> 45, communication |-> 25, idle |-> 10]

\* The class attributes a MissionSimulator reads through self.config.
RoverConfig ==
  [BATTERY_CAPACITY |-> BATTERY_CAPACITY,
   ENERGY_RESERVE_RATIO |-> ENERGY_RESERVE_RATIO,
   CRITICAL_ENERGY_THRESHOLD |-> CRITICAL_ENERGY_THRESHOLD]

\* Fault variant of get_available_energy: no reserve is held back.
get_available_energy_NoReserve(current_battery_level_) ==
  RMax(R(0), RMul(config.BATTERY_CAPACITY, current_battery_level_))

\* RoverConfig.get_available_energy
get_available_energy(current_battery_level_) ==
  LET total_energy == RMul(config.BATTERY_CAPACITY, current_battery_level_)
      reserve_energy ==
        RMul(config.BATTERY_CAPACITY, config.ENERGY_RESERVE_RATIO)
  IN RMax(R(0), RSub(total_energy, reserve_energy))

is_critical_energy_strict(current_battery_level_) ==
  RLt(current_battery_level_, config.CRITICAL_ENERGY_THRESHOLD)

\* RoverConfig.is_critical_energy
is_critical_energy(current_battery_level_) ==
  RLeq(current_battery_level_, config.CRITICAL_ENERGY_THRESHOLD)

\* ------------------------------------------------------ EnergyModel
\* EnergyModel.calculate_task_energy, for a task type of TASK_POWER; the
\* caller tests KnownType first (the ValueError branch).
KnownType(task_type) == task_type \in DOMAIN TASK_POWER

\* Fault variant of calculate_task_energy: watt-hours, not kWh.
calculate_task_energy_InWattHours(task_type, duration_hours) ==
  RMul(R(TASK_POWER[task_type]), duration_hours)

calculate_task_energy(task_type, duration_hours) ==
  RDiv(RMul(R(TASK_POWER[task_type]), duration_hours), R(1000))

\* ------------------------------------------------------- sequences
Range(s) == {s[i] : i \in DOMAIN s}

\* Sequences over S without repetition, of length at most n.
InjSeqs(S, n) ==
  {s \in UNION {[1..k -> S] : k \in 0..n} :
     \A i, j \in DOMAIN s : i # j => s[i] # s[j]}

\* s with x inserted after every element whose key is <= key[x].
RECURSIVE InsertByKey(_, _, _)
InsertByKey(x, s, key) ==
  IF s = <<>> THEN <<x>>
  ELSE IF RLeq(key[Head(s)], key[x])
       THEN <<Head(s)>> \o InsertByKey(x, Tail(s), key)
       ELSE <<x>> \o s

\* Python's sorted(s, key=...): ascending by key, equal keys in input
\* order.
RECURSIVE SortedFrom(_, _, _)
SortedFrom(done, rest, key) ==
  IF rest = <<>> THEN done
  ELSE SortedFrom(InsertByKey(Head(rest), done, key), Tail(rest), key)

Sorted(s, key) == SortedFrom(<<>>, s, key)

\* --------------------------------------------------- the caller's tasks
\* The Task objects the caller has constructed (Task.__init__ arguments).
\* Task.__init__ validates nothing: a duration may be zero or negative and
\* a task type may be absent from TASK_POWER.
TaskPool ==
  [A |-> [task_type |-> "drilling", duration_hours |-> R(250),
          urgency |-> R(9), reward |-> R(25)],
   B |-> [task_type |-> "drilling", duration_hours |-> R(100),
          urgency |-> R(5), reward |-> R(5)],
   C |-> [task_type |-> "imaging", duration_hours |-> R(400),
          urgency |-> R(5), reward |-> R(5)],
   D |-> [task_type |-> "idle", duration_hours |-> R(0),
          urgency |-> R(2), reward |-> R(4)],
   E |-> [task_type |-> "communication", duration_hours |-> R(-400),
          urgency |-> R(5), reward |-> R(1)],
   F |-> [task_type |-> "laser", duration_hours |-> R(1),
          urgency |-> R(5), reward |-> R(1)]]

TaskIds == DOMAIN TaskPool

\* Task.__init__
NewTask(id) ==
  [task_id |-> id,
   task_type |-> TaskPool[id].task_type,
   duration_hours |-> TaskPool[id].duration_hours,
   urgency |-> TaskPool[id].urgency,
   reward |-> TaskPool[id].reward,
   completed |-> FALSE,
   deferred |-> FALSE,
   energy_cost |-> R(0)]

\* Terrain profiles: the energy_kwh calculate_energy_consumption returns
\* for each segment of the CSV at the run's velocity.
NoTerrain == <<>>
TerrainProfiles ==
  {<<R(9)>>, <<R(30), R(6)>>, <<Rat(38016, 1000)>>, <<R(30), R(20)>>}

\* The loop over the trials, before the first one.
TrialsIdle ==
  /\ trial = 0
  /\ valid_trials = 0
  /\ all_results =
       [a \in {"FIFO", "EnergyGreedy", "UrgencyFirst", "Random", "WSPT",
                "OurAlgorithm"} |->
          [completion |-> <<>>, efficiency |-> <<>>, reward |-> <<>>,
           energy |-> <<>>]]
  /\ trial_results = <<>>
  /\ loop_pc = "loop"

\* Inside the first trial, before its first policy.
InTrial ==
  /\ trial = 0
  /\ valid_trials = 0
  /\ all_results =
       [a \in {"FIFO", "EnergyGreedy", "UrgencyFirst", "Random", "WSPT",
                "OurAlgorithm"} |->
          [completion |-> <<>>, efficiency |-> <<>>, reward |-> <<>>,
           energy |-> <<>>]]
  /\ trial_results = <<>>
  /\ loop_pc = "policies"

\* No pure function has been called.
PureIdle == energy_call = <<>> /\ stats_call = <<>>

\* No benchmark scenario is loaded.
BenchIdle ==
  /\ scenario = [energy_level |-> R(0), tasks |-> <<>>]
  /\ algorithm = "none"
  /\ ordered_tasks = <<>>
  /\ execution_result = <<>>
  /\ test_result = <<>>
  /\ trial_valid = TRUE

\* MissionSimulator.__init__ and freshly constructed tasks
SimulatorInit ==
  /\ current_battery_level = R(1)
  /\ completed_tasks = <<>>
  /\ deferred_tasks = <<>>
  /\ mission_log = <<>>
  /\ pc = "idle"
  /\ tasks = <<>>
  /\ terrain = NoTerrain
  /\ traversal_summary = <<>>
  /\ prioritized_tasks = <<>>
  /\ idx = 0
  /\ mission_results = <<>>
  /\ runs = 0
  /\ direct_calls = 0
  /\ last_call = <<>>
  /\ start_level = R(1)
  /\ halt_idx = 0
  /\ prev_summary = <<>>

\* A simulator on the default RoverConfig, and the caller's fresh tasks.
MissionInit ==
  /\ config = RoverConfig
  /\ task = [id \in TaskIds |-> NewTask(id)]
  /\ SimulatorInit

Init == MissionInit /\ BenchIdle /\ PureIdle /\ TrialsIdle

\* ------------------------------------------------- MissionSimulator
\* Fault variant of lambda3: reward counted as a cost.
lambda3_Positive == R(2)

\* Cost function weights (MissionSimulator.__init__)
lambda1 == R(1)
lambda2 == Rat(1, 2)
lambda3 == R(-2)

\* Fault variant of PriorityCost: the reward term is weighted by the
\* battery level.
PriorityCost_WeighsBattery(t, energy_cost) ==
  RAdd(RAdd(RMul(lambda1, energy_cost),
            RMul(lambda2, RDiv(R(1), RMax(t.urgency, Rat(1, 10))))),
       RMul(RMul(lambda3, t.reward), current_battery_level))

\* The cost calculate_task_priority returns for task record t once its
\* energy cost is energy_cost.
PriorityCost(t, energy_cost) ==
  RAdd(RAdd(RMul(lambda1, energy_cost),
            RMul(lambda2, RDiv(R(1), RMax(t.urgency, Rat(1, 10))))),
       RMul(lambda3, t.reward))

\* The energy cost calculate_task_priority stores on a task of known type.
EnergyCostOf(t) == calculate_task_energy(t.task_type, t.duration_hours)

\* Fault variant of CanExecuteAt: the energy comparison is reversed.
CanExecuteAt_Reversed(level, energy_cost) ==
  IF is_critical_energy(level) THEN FALSE
  ELSE RLeq(get_available_energy(level), energy_cost)

\* Fault variant of CanExecuteAt: the task's energy cost is not compared.
CanExecuteAt_IgnoresCost(level, energy_cost) == ~is_critical_energy(level)

\* MissionSimulator.can_execute_task, as a function of the two values it
\* reads: the simulator's battery level and the task's energy_cost.
CanExecuteAt(level, energy_cost) ==
  IF is_critical_energy(level) THEN FALSE
  ELSE RLeq(energy_cost, get_available_energy(level))

\* MissionSimulator.can_execute_task
can_execute_task(t) ==
  CanExecuteAt(current_battery_level, task[t].energy_cost)

\* What a call of execute_task(t) found when it was entered.
CallRecord(t, returned) ==
  [task |-> t, returned |-> returned,
   battery_before |-> current_battery_level,
   energy_cost |-> task[t].energy_cost,
   completed_before |-> completed_tasks,
   deferred_before |-> deferred_tasks,
   log_before |-> mission_log]

\* MissionSimulator.execute_task: its effect on the simulator and the task
execute_task(t) ==
  IF ~can_execute_task(t)
  THEN /\ task' = [task EXCEPT ![t].deferred = TRUE]
       /\ deferred_tasks' = Append(deferred_tasks, t)
       /\ UNCHANGED <<current_battery_level, completed_tasks, mission_log>>
       /\ last_call' = <<CallRecord(t, FALSE)>>
  ELSE LET energy_consumed == task[t].energy_cost
           energy_fraction == RDiv(energy_consumed, config.BATTERY_CAPACITY)
           level_after == RSub(current_battery_level, energy_fraction)
       IN /\ current_battery_level' = level_after
          /\ task' = [task EXCEPT ![t].completed = TRUE]
          /\ completed_tasks' = Append(completed_tasks, t)
          /\ mission_log' =
               Append(mission_log,
                      [task_id |-> t,
                       task_type |-> task[t].task_type,
                       duration_hours |-> task[t].duration_hours,
                       energy_consumed_kwh |-> energy_consumed,
                       battery_level_after |-> level_after,
                       status |-> "completed"])
          /\ UNCHANGED deferred_tasks
          /\ last_call' = <<CallRecord(t, TRUE)>>

\* Fault variant of simulate_terrain_traversal: the battery is not charged
\* for the traversal.
simulate_terrain_traversal_KeepsBattery(profile) ==
  [total_energy_kwh |-> RSum(profile), battery_level_after |-> R(1)]

\* Fault variant of simulate_terrain_traversal: half of the traversal
\* energy is charged to the battery.
simulate_terrain_traversal_HalfCharged(profile) ==
  LET total_energy == RSum(profile)
      energy_fraction == RDiv(total_energy, config.BATTERY_CAPACITY)
  IN [total_energy_kwh |-> total_energy,
      battery_level_after |-> RSub(R(1), RMul(Rat(1, 2), energy_fraction))]

\* MissionSimulator.simulate_terrain_traversal: the summary it returns;
\* the battery level after it is the summary's battery_level_after.
simulate_terrain_traversal(profile) ==
  LET total_energy == RSum(profile)
      energy_fraction == RDiv(total_energy, config.BATTERY_CAPACITY)
  IN [total_energy_kwh |-> total_energy,
      battery_level_after |-> RSub(R(1), energy_fraction)]

\* run_mission_simulation, entry: reset of the mission state, then the
\* terrain traversal if a terrain CSV is given.  The callers modelled run a
\* simulator again on the same task list, and make their own execute_task
\* calls after the runs.
StartRun(ts, terr) ==
  /\ pc \in {"idle", "done", "failed"}
  /\ runs < MaxRuns
  /\ direct_calls = 0
  /\ runs > 0 => ts = tasks
  /\ runs' = runs + 1
  /\ tasks' = ts
  /\ terrain' = terr
  /\ completed_tasks' = <<>>
  /\ deferred_tasks' = <<>>
  /\ mission_log' = <<>>
  /\ IF terr = NoTerrain
     THEN /\ current_battery_level' = R(1)
          /\ traversal_summary' = <<>>
     ELSE LET summary == simulate_terrain_traversal(terr[1])
          IN /\ current_battery_level' = summary.battery_level_after
             /\ traversal_summary' = <<summary>>
  /\ prev_summary' =
       IF pc = "done" /\ terr = terrain
       THEN <<mission_results[1].mission_summary>> ELSE <<>>
  /\ mission_results' = <<>>
  /\ prioritized_tasks' = <<>>
  /\ idx' = 0
  /\ halt_idx' = 0
  /\ last_call' = <<>>
  /\ pc' = "prioritize"
  /\ UNCHANGED <<config, bvars, xvars, tvars>>
  /\ UNCHANGED <<task, direct_calls, start_level>>

\* Positions of tasks whose type calculate_task_energy rejects.
UnknownAt(ts) == {i \in DOMAIN ts : ~KnownType(task[ts[i]].task_type)}

Min(S) == CHOOSE x \in S : \A y \in S : x <= y

\* Fault variant of PrioritizeTasks: the tasks in front of the first task
\* of unknown type are deferred before the error ends the run.
PrioritizeTasks_DefersBeforeError ==
  /\ pc = "prioritize"
  /\ IF UnknownAt(tasks) # {}
     THEN /\ task' = [id \in TaskIds |->
                        IF \E i \in 1..(Min(UnknownAt(tasks)) - 1) : tasks[i] = id
                        THEN [task[id] EXCEPT !.energy_cost = EnergyCostOf(task[id]),
                                              !.deferred = TRUE]
                        ELSE task[id]]
          /\ deferred_tasks' = SubSeq(tasks, 1, Min(UnknownAt(tasks)) - 1)
          /\ pc' = "failed"
          /\ UNCHANGED <<prioritized_tasks, idx, start_level>>
     ELSE LET key == [id \in Range(tasks) |->
                        PriorityCost(task[id], EnergyCostOf(task[id]))]
          IN /\ task' = [id \in TaskIds |->
                           IF id \in Range(tasks)
                           THEN [task[id] EXCEPT !.energy_cost = EnergyCostOf(task[id])]
                           ELSE task[id]]
             /\ prioritized_tasks' = Sorted(tasks, key)
             /\ idx' = 1
             /\ start_level' = current_battery_level
             /\ pc' = IF tasks = <<>> THEN "stats" ELSE "execute"
             /\ UNCHANGED deferred_tasks
  /\ last_call' = <<>>
  /\ UNCHANGED <<config, bvars, xvars, tvars>>
  /\ UNCHANGED <<current_battery_level, completed_tasks,
                 mission_log, tasks, terrain, traversal_summary,
                 mission_results, runs, direct_calls, halt_idx, prev_summary>>

\* MissionSimulator.prioritize_tasks, as called by run_mission_simulation:
\* sorted() evaluates calculate_task_priority on every task in list order
\* (storing each energy cost) and then orders by the keys.  The first task
\* of unknown type raises ValueError, which ends the run.
PrioritizeTasks ==
  /\ pc = "prioritize"
  /\ IF UnknownAt(tasks) # {}
     THEN /\ task' = [id \in TaskIds |->
                        IF \E i \in 1..(Min(UnknownAt(tasks)) - 1) : tasks[i] = id
                        THEN [task[id] EXCEPT !.energy_cost = EnergyCostOf(task[id])]
                        ELSE task[id]]
          /\ pc' = "failed"
          /\ UNCHANGED <<prioritized_tasks, idx, start_level>>
     ELSE LET key == [id \in Range(tasks) |->
                        PriorityCost(task[id], EnergyCostOf(task[id]))]
          IN /\ task' = [id \in TaskIds |->
                           IF id \in Range(tasks)
                           THEN [task[id] EXCEPT !.energy_cost = EnergyCostOf(task[id])]
                           ELSE task[id]]
             /\ prioritized_tasks' = Sorted(tasks, key)
             /\ idx' = 1
             /\ start_level' = current_battery_level
             /\ pc' = IF tasks = <<>> THEN "stats" ELSE "execute"
  /\ last_call' = <<>>
  /\ UNCHANGED <<config, bvars, xvars, tvars>>
  /\ UNCHANGED <<current_battery_level, completed_tasks, deferred_tasks,
                 mission_log, tasks, terrain, traversal_summary,
                 mission_results, runs, direct_calls, halt_idx, prev_summary>>

\* Fault variant of ExecuteStep: a deferral leaves the loop.
ExecuteStep_StopsOnDeferral ==
  /\ pc = "execute"
  /\ ~is_critical_energy(current_battery_level)
  /\ execute_task(prioritized_tasks[idx])
  /\ idx' = idx + 1
  /\ pc' = IF idx = Len(prioritized_tasks)
               \/ ~can_execute_task(prioritized_tasks[idx])
            THEN "stats" ELSE "execute"
  /\ UNCHANGED <<config, bvars, xvars, tvars>>
  /\ UNCHANGED <<tasks, terrain, traversal_summary, prioritized_tasks,
                 mission_results, runs, direct_calls, start_level, halt_idx,
                 prev_summary>>

\* One iteration of the for loop whose critical-energy test fails: the
\* task at the loop position is handed to execute_task.
ExecuteStep ==
  /\ pc = "execute"
  /\ ~is_critical_energy(current_battery_level)
  /\ execute_task(prioritized_tasks[idx])
  /\ idx' = idx + 1
  /\ pc' = IF idx = Len(prioritized_tasks) THEN "stats" ELSE "execute"
  /\ UNCHANGED <<config, bvars, xvars, tvars>>
  /\ UNCHANGED <<tasks, terrain, traversal_summary, prioritized_tasks,
                 mission_results, runs, direct_calls, start_level, halt_idx,
                 prev_summary>>

\* Fault variant of remaining_tasks: the break branch finds no task left.
remaining_tasks_NoneLeft == <<>>

\* The tasks the break branch defers: remaining_tasks.
remaining_tasks ==
  SelectSeq(prioritized_tasks,
            LAMBDA t : ~task[t].completed /\ ~task[t].deferred)

\* The iteration whose critical-energy test succeeds: the remaining tasks
\* are deferred and the loop is left.
CriticalHalt ==
  /\ pc = "execute"
  /\ is_critical_energy(current_battery_level)
  /\ task' = [id \in TaskIds |->
                IF id \in Range(remaining_tasks)
                THEN [task[id] EXCEPT !.deferred = TRUE] ELSE task[id]]
  /\ deferred_tasks' = deferred_tasks \o remaining_tasks
  /\ halt_idx' = idx
  /\ pc' = "stats"
  /\ last_call' = <<>>
  /\ UNCHANGED <<config, bvars, xvars, tvars>>
  /\ UNCHANGED <<current_battery_level, completed_tasks, mission_log, tasks,
                 terrain, traversal_summary, prioritized_tasks, idx,
                 mission_results, runs, direct_calls, start_level,
                 prev_summary>>

\* The mission_summary of the returned dict.
MissionSummary ==
  LET total_completed == Len(completed_tasks)
      total_deferred == Len(deferred_tasks)
  IN [total_tasks |-> Len(tasks),
      completed_tasks |-> total_completed,
      deferred_tasks |-> total_deferred,
      completion_rate |->
        IF tasks # <<>> THEN Rat(total_completed, Len(tasks)) ELSE R(0),
      final_battery_level |-> current_battery_level,
      total_energy_consumed_kwh |->
        RMul(RSub(R(1), current_battery_level), config.BATTERY_CAPACITY),
      task_energy_kwh |->
        RSum([i \in DOMAIN completed_tasks |->
                task[completed_tasks[i]].energy_cost])]

\* run_mission_simulation, after the loop: statistics and the result.
ComputeStatistics ==
  /\ pc = "stats"
  /\ mission_results' =
       <<[mission_summary |-> MissionSummary,
          completed_tasks |-> completed_tasks,
          deferred_tasks |-> deferred_tasks,
          traversal_summary |-> traversal_summary,
          mission_log |-> mission_log]>>
  /\ pc' = "done"
  /\ last_call' = <<>>
  /\ UNCHANGED <<config, bvars, xvars, tvars>>
  /\ UNCHANGED <<task, current_battery_level, completed_tasks,
                 deferred_tasks, mission_log, tasks, terrain,
                 traversal_summary, prioritized_tasks, idx, runs,
                 direct_calls, start_level, halt_idx, prev_summary>>

\* A caller's own call of execute_task, outside a run (as the unit tests
\* make it): the task need not have been through prioritize_tasks.
DirectExecute(t) ==
  /\ pc \in {"idle", "done", "failed"}
  /\ direct_calls < MaxDirectCalls
  /\ direct_calls' = direct_calls + 1
  /\ execute_task(t)
  /\ pc' = "idle"
  /\ UNCHANGED <<config, bvars, xvars, tvars>>
  /\ UNCHANGED <<tasks, terrain, traversal_summary, prioritized_tasks, idx,
                 mission_results, runs, start_level, halt_idx, prev_summary>>

TaskLists == InjSeqs(TaskIds, MaxTasks)

Next ==
  \/ \E ts \in TaskLists, terr \in {NoTerrain} \cup {<<p>> : p \in TerrainProfiles} :
       StartRun(ts, terr)
  \/ PrioritizeTasks
  \/ ExecuteStep
  \/ CriticalHalt
  \/ ComputeStatistics
  \/ \E t \in TaskIds : DirectExecute(t)

Spec == Init /\ [][Next]_vars

\* -------------------------------------------------- SimpleValidator
\* Rover parameters (SimpleValidator.__init__), kWh
battery_capacity == Rat(4224, 100)
terrain_energy == Rat(61, 1000)
reserve_ratio == Rat(20, 100)

\* A benchmark Task carries id, duration, urgency, reward and energy; its
\* type_index and power are read by no scheduler and by no execution step
\* and are left out.

\* SimpleValidator.fifo_scheduler
fifo_scheduler(ts) == ts

\* Fault variant of energy_greedy_scheduler: highest energy first.
energy_greedy_scheduler_Descending(ts) ==
  Sorted(ts, [t \in Range(ts) |-> RNeg(t.energy)])

\* SimpleValidator.energy_greedy_scheduler
energy_greedy_scheduler(ts) ==
  Sorted(ts, [t \in Range(ts) |-> t.energy])

\* SimpleValidator.urgency_first_scheduler (reverse=True keeps equal keys
\* in input order)
urgency_first_scheduler(ts) ==
  Sorted(ts, [t \in Range(ts) |-> RNeg(t.urgency)])

\* Fault variant of wspt_scheduler: lowest ratio first.
wspt_scheduler_Ascending(ts) ==
  Sorted(ts, [t \in Range(ts) |->
                RDiv(t.reward, RMax(t.duration, Rat(1, 100)))])

\* SimpleValidator.wspt_scheduler
wspt_scheduler(ts) ==
  Sorted(ts, [t \in Range(ts) |->
                RNeg(RDiv(t.reward, RMax(t.duration, Rat(1, 100))))])

\* Fault variant of Swap: position i is overwritten, position j is kept.
Swap_Overwrites(s, i, j) == [s EXCEPT ![i] = s[j]]

\* s with the elements at positions i and j exchanged.
Swap(s, i, j) == [s EXCEPT ![i] = s[j], ![j] = s[i]]

\* random.shuffle: for i from the last position down to the second, the
\* element at i is exchanged with one at a drawn position j <= i.  The set
\* of lists the draws can produce.
RECURSIVE ShuffleFrom(_, _)
ShuffleFrom(s, i) ==
  IF i <= 1 THEN {s}
  ELSE UNION {ShuffleFrom(Swap(s, i, j), i - 1) : j \in 1..i}

\* SimpleValidator.random_scheduler: the lists it can return.
random_scheduler(ts) == ShuffleFrom(ts, Len(ts))

\* Fault variant of OurPriority: the efficiency term is added as a cost.
OurPriority_PenalisesEfficiency(t) ==
  LET energy_cost == RMul(R(1), t.energy)
      urgency_factor == RMul(Rat(1, 2), RDiv(R(1), RMax(t.urgency, Rat(1, 10))))
      reward_factor == RMul(R(-2), t.reward)
      energy_efficiency == RDiv(t.reward, RMax(t.energy, Rat(1, 1000)))
      efficiency_bonus == RMul(Rat(1, 2), energy_efficiency)
      time_sensitivity_bonus ==
        IF RLt(R(8), t.urgency) THEN R(-1)
        ELSE IF RLt(t.urgency, R(3)) THEN Rat(1, 2)
        ELSE R(0)
  IN RAdd(RAdd(RAdd(RAdd(energy_cost, urgency_factor), reward_factor),
               efficiency_bonus), time_sensitivity_bonus)

\* The priority our_prioritization_scheduler computes for a task.
OurPriority(t) ==
  LET energy_cost == RMul(R(1), t.energy)
      urgency_factor == RMul(Rat(1, 2), RDiv(R(1), RMax(t.urgency, Rat(1, 10))))
      reward_factor == RMul(R(-2), t.reward)
      energy_efficiency == RDiv(t.reward, RMax(t.energy, Rat(1, 1000)))
      efficiency_bonus == RMul(Rat(-1, 2), energy_efficiency)
      time_sensitivity_bonus ==
        IF RLt(R(8), t.urgency) THEN R(-1)
        ELSE IF RLt(t.urgency, R(3)) THEN Rat(1, 2)
        ELSE R(0)
  IN RAdd(RAdd(RAdd(RAdd(energy_cost, urgency_factor), reward_factor),
               efficiency_bonus), time_sensitivity_bonus)

\* SimpleValidator.our_prioritization_scheduler
our_prioritization_scheduler(ts) ==
  Sorted(ts, [t \in Range(ts) |-> OurPriority(t)])

\* The algorithms dict of run_comprehensive_validation, in its order.
Algorithms ==
  <<"FIFO", "EnergyGreedy", "UrgencyFirst", "Random", "WSPT", "OurAlgorithm">>

\* Position of the policy last run in Algorithms, 0 before the first.
AlgorithmIndex ==
  IF algorithm = "none" THEN 0
  ELSE CHOOSE i \in DOMAIN Algorithms : Algorithms[i] = algorithm

\* The lists algorithm alg can return for ts (one list, but for Random).
Schedule(alg, ts) ==
  CASE alg = "FIFO" -> {fifo_scheduler(ts)}
    [] alg = "EnergyGreedy" -> {energy_greedy_scheduler(ts)}
    [] alg = "UrgencyFirst" -> {urgency_first_scheduler(ts)}
    [] alg = "Random" -> random_scheduler(ts)
    [] alg = "WSPT" -> {wspt_scheduler(ts)}
    [] alg = "OurAlgorithm" -> {our_prioritization_scheduler(ts)}

\* The loop of simulate_task_execution from position i on: the completed
\* tasks, the energy used and the reward collected.
RECURSIVE ExecuteFrom(_, _, _, _)
ExecuteFrom(ordered, i, usable_energy, acc) ==
  IF i > Len(ordered) THEN acc
  ELSE LET t == ordered[i] IN
       IF RLeq(t.energy, usable_energy)
       THEN ExecuteFrom(ordered, i + 1, RSub(usable_energy, t.energy),
                        [completed_tasks |-> Append(acc.completed_tasks, t),
                         total_energy |-> RAdd(acc.total_energy, t.energy),
                         total_reward |-> RAdd(acc.total_reward, t.reward)])
       ELSE ExecuteFrom(ordered, i + 1, usable_energy, acc)

\* Fault variant of UsableEnergy: the mission engine's available energy.
UsableEnergy_EngineRule(energy_level) ==
  RMax(R(0), RSub(RMul(battery_capacity, energy_level),
                  RMul(battery_capacity, reserve_ratio)))

\* The usable energy simulate_task_execution starts from.
UsableEnergy(energy_level) ==
  LET total_energy == RMul(battery_capacity, energy_level)
      available_energy == RSub(total_energy, terrain_energy)
      reserve_energy == RMul(available_energy, reserve_ratio)
  IN RMax(R(0), RSub(available_energy, reserve_energy))

\* SimpleValidator.simulate_task_execution
simulate_task_execution(ordered, energy_level) ==
  ExecuteFrom(ordered, 1, UsableEnergy(energy_level),
              [completed_tasks |-> <<>>,
               total_energy |-> terrain_energy,
               total_reward |-> R(0)])

\* Scenario tasks: every combination of these field values.
BenchEnergies == {R(0), Rat(1, 40), R(1)}
BenchUrgencies == {R(2), R(3), R(8), R(9)}
BenchRewards == {R(10), R(90)}
BenchDurations == {R(0), R(7)}
BenchLevels == {Rat(5, 100)}

BenchTaskLists ==
  UNION {[1..k -> [energy : BenchEnergies, urgency : BenchUrgencies,
                   reward : BenchRewards, duration : BenchDurations]] :
           k \in 0..MaxBenchTasks}

\* Task ids are the list positions (T001, T002, ...).
WithIds(fields) ==
  [i \in DOMAIN fields |->
     [id |-> i, duration |-> fields[i].duration, urgency |-> fields[i].urgency,
      reward |-> fields[i].reward, energy |-> fields[i].energy]]

\* A validator holding one scenario; no policy has run on it yet.
ScenarioLoaded ==
  /\ \E fields \in BenchTaskLists, level \in BenchLevels :
       scenario = [energy_level |-> level, tasks |-> WithIds(fields)]
  /\ algorithm = "none"
  /\ ordered_tasks = <<>>
  /\ execution_result = <<>>
  /\ test_result = <<>>
  /\ trial_valid = TRUE

\* Fault variant of RunSingleAlgorithmTest: the policy orders the
\* scenario's own task list in place.
RunSingleAlgorithmTest_OrdersInPlace(alg) ==
  /\ loop_pc = "policies"
  /\ trial_valid
  /\ AlgorithmIndex < Len(Algorithms)
  /\ alg = Algorithms[AlgorithmIndex + 1]
  /\ \E ordered \in Schedule(alg, scenario.tasks) :
       LET result == simulate_task_execution(ordered, scenario.energy_level)
       IN /\ ordered_tasks' = ordered
          /\ scenario' = [scenario EXCEPT !.tasks = ordered]
          /\ execution_result' = <<result>>
          /\ IF scenario.tasks = <<>>
             THEN /\ test_result' = <<>>
                  /\ trial_valid' = FALSE
                  /\ UNCHANGED trial_results
             ELSE /\ test_result' =
                       <<[completion_rate |->
                            RMul(Rat(Len(result.completed_tasks),
                                     Len(scenario.tasks)), R(100)),
                          total_reward |-> result.total_reward,
                          energy_used |-> result.total_energy,
                          efficiency |->
                            RDiv(result.total_reward,
                                 RMax(result.total_energy, Rat(1, 1000)))]>>
                  /\ trial_valid' = TRUE
                  /\ trial_results' = trial_results \o test_result'
  /\ algorithm' = alg
  /\ UNCHANGED <<trial, valid_trials, all_results, loop_pc>>
  /\ UNCHANGED <<mvars, xvars>>

\* One pass of the trial loop of run_comprehensive_validation:
\* run_single_algorithm_test on the next policy of Algorithms.  The
\* completion rate divides by the number of scenario tasks: on an empty
\* scenario the division raises, no result is returned and the trial is
\* abandoned.
RunSingleAlgorithmTest(alg) ==
  /\ loop_pc = "policies"
  /\ trial_valid
  /\ AlgorithmIndex < Len(Algorithms)
  /\ alg = Algorithms[AlgorithmIndex + 1]
  /\ \E ordered \in Schedule(alg, scenario.tasks) :
       LET result == simulate_task_execution(ordered, scenario.energy_level)
       IN /\ ordered_tasks' = ordered
          /\ execution_result' = <<result>>
          /\ IF scenario.tasks = <<>>
             THEN /\ test_result' = <<>>
                  /\ trial_valid' = FALSE
                  /\ UNCHANGED trial_results
             ELSE /\ test_result' =
                       <<[completion_rate |->
                            RMul(Rat(Len(result.completed_tasks),
                                     Len(scenario.tasks)), R(100)),
                          total_reward |-> result.total_reward,
                          energy_used |-> result.total_energy,
                          efficiency |->
                            RDiv(result.total_reward,
                                 RMax(result.total_energy, Rat(1, 1000)))]>>
                  /\ trial_valid' = TRUE
                  /\ trial_results' = trial_results \o test_result'
  /\ algorithm' = alg
  /\ UNCHANGED <<trial, valid_trials, all_results, loop_pc>>
  /\ UNCHANGED <<scenario, mvars, xvars>>

BenchNext == \E alg \in Range(Algorithms) : RunSingleAlgorithmTest(alg)

BenchInit == MissionInit /\ ScenarioLoaded /\ PureIdle /\ InTrial

SpecBench == BenchInit /\ [][BenchNext]_vars

\* Scenarios of up to MaxGreedyTasks tasks whose energies make the number
\* of completed tasks depend on the order (usable energy 1.6408 kWh).
GreedyTaskLists ==
  UNION {[1..k -> [energy : {Rat(1, 40), Rat(4, 5), R(1)},
                   urgency : {R(2), R(9)},
                   reward : {R(10)}, duration : {R(7)}]] :
           k \in 1..MaxGreedyTasks}

\* A validator holding one of these scenarios; no policy has run on it.
GreedyInit ==
  /\ config = RoverConfig
  /\ task = [id \in TaskIds |-> NewTask(id)]
  /\ SimulatorInit
  /\ \E fields \in GreedyTaskLists, level \in BenchLevels :
       scenario = [energy_level |-> level, tasks |-> WithIds(fields)]
  /\ algorithm = "none"
  /\ ordered_tasks = <<>>
  /\ execution_result = <<>>
  /\ test_result = <<>>
  /\ trial_valid = TRUE
  /\ PureIdle
  /\ InTrial

SpecGreedy == GreedyInit /\ [][BenchNext]_vars

\* ------------------------------------------- a simulator driven by hand
\* A configuration class that overrides the battery capacity: 10 kWh.
SmallBatteryConfig ==
  [BATTERY_CAPACITY |-> R(10),
   ENERGY_RESERVE_RATIO |-> ENERGY_RESERVE_RATIO,
   CRITICAL_ENERGY_THRESHOLD |-> CRITICAL_ENERGY_THRESHOLD]

\* The caller's tasks: 3 kWh, 6 kWh, 1 kWh and 8 kWh.
HandPool ==
  [A |-> [task_type |-> "drilling", duration_hours |-> R(25),
          urgency |-> R(5), reward |-> R(5)],
   B |-> [task_type |-> "drilling", duration_hours |-> R(50),
          urgency |-> R(5), reward |-> R(5)],
   C |-> [task_type |-> "idle", duration_hours |-> R(100),
          urgency |-> R(5), reward |-> R(5)],
   D |-> [task_type |-> "sample_collection", duration_hours |-> R(100),
          urgency |-> R(5), reward |-> R(5)]]

HandIds == DOMAIN HandPool

\* A simulator constructed with SmallBatteryConfig; the caller has built
\* its tasks and had calculate_task_priority store each energy cost.
HandInit ==
  /\ config = SmallBatteryConfig
  /\ task = [id \in HandIds |->
               [task_id |-> id,
                task_type |-> HandPool[id].task_type,
                duration_hours |-> HandPool[id].duration_hours,
                urgency |-> HandPool[id].urgency,
                reward |-> HandPool[id].reward,
                completed |-> FALSE,
                deferred |-> FALSE,
                energy_cost |-> EnergyCostOf(HandPool[id])]]
  /\ SimulatorInit
  /\ BenchIdle
  /\ PureIdle
  /\ TrialsIdle

\* The caller's next execute_task call.
HandExecute(t) ==
  /\ direct_calls < MaxExampleCalls
  /\ direct_calls' = direct_calls + 1
  /\ execute_task(t)
  /\ UNCHANGED <<config, bvars, xvars, tvars>>
  /\ UNCHANGED <<pc, tasks, terrain, traversal_summary, prioritized_tasks, idx,
                 mission_results, runs, start_level, halt_idx, prev_summary>>

HandNext == \E t \in HandIds : HandExecute(t)

SpecExample == HandInit /\ [][HandNext]_vars

\* -------------------------------------- EnergyModel: terrain and estimate
\* RoverConfig physical parameters read by EnergyModel
GRAVITY_MARS == Rat(371, 100)
MASS == R(899)
ROLLING_RESISTANCE_COEFF == Rat(15, 100)
MOTOR_EFFICIENCY == Rat(85, 100)
DRIVETRAIN_EFFICIENCY == Rat(90, 100)
NOMINAL_VELOCITY == Rat(42, 1000)

\* math.sin(math.radians(d)) and math.cos(math.radians(d)) at the slopes
\* modelled (0, 90 and -90 degrees), where both are rational.
Slopes == {R(0), R(90), R(-90)}
SinDeg(d) == IF d = R(90) THEN R(1) ELSE IF d = R(-90) THEN R(-1) ELSE R(0)
CosDeg(d) == IF d = R(0) THEN R(1) ELSE R(0)

RAbs(a) == [n |-> Abs(a.n), d |-> a.d]

\* EnergyModel.calculate_slope_force (mass from the configuration)
calculate_slope_force(slope_degrees) ==
  RMul(RMul(MASS, GRAVITY_MARS), SinDeg(slope_degrees))

\* EnergyModel.calculate_rolling_resistance
calculate_rolling_resistance(slope_degrees) ==
  LET normal_force == RMul(RMul(MASS, GRAVITY_MARS), CosDeg(slope_degrees))
  IN RMul(ROLLING_RESISTANCE_COEFF, normal_force)

\* EnergyModel.calculate_roughness_penalty
calculate_roughness_penalty(roughness, velocity) ==
  RMul(RMul(roughness, velocity), R(50))

\* EnergyModel.calculate_power_consumption
calculate_power_consumption(slope_degrees, velocity, roughness) ==
  LET slope_force == calculate_slope_force(slope_degrees)
      rolling_resistance == calculate_rolling_resistance(slope_degrees)
      total_force == RAdd(RAbs(slope_force), rolling_resistance)
      mechanical_power == RMul(total_force, velocity)
      roughness_penalty == calculate_roughness_penalty(roughness, velocity)
  IN RDiv(RAdd(mechanical_power, roughness_penalty),
          RMul(MOTOR_EFFICIENCY, DRIVETRAIN_EFFICIENCY))

\* The outcome of a call that raised.
Raised == [raised |-> TRUE]

\* Fault variant of calculate_energy_consumption: the minimum operational
\* speed is rejected as well.
calculate_energy_consumption_RejectsMinimum(distance, slope_degrees, velocity, roughness) ==
  IF RLeq(velocity, Rat(1, 100)) THEN Raised
  ELSE LET time_hours == RDiv(distance, RMul(velocity, R(3600)))
           power_watts ==
             calculate_power_consumption(slope_degrees, velocity, roughness)
           energy_kwh == RDiv(RMul(power_watts, time_hours), R(1000))
       IN [raised |-> FALSE,
           distance_m |-> distance,
           time_hours |-> time_hours,
           power_watts |-> power_watts,
           energy_kwh |-> energy_kwh,
           slope_degrees |-> slope_degrees,
           velocity_ms |-> velocity,
           roughness |-> roughness]

\* EnergyModel.calculate_energy_consumption: Raised for the ValueError, or
\* the returned dict.
calculate_energy_consumption(distance, slope_degrees, velocity, roughness) ==
  IF RLeq(velocity, R(0)) THEN Raised
  ELSE LET time_hours == RDiv(distance, RMul(velocity, R(3600)))
           power_watts ==
             calculate_power_consumption(slope_degrees, velocity, roughness)
           energy_kwh == RDiv(RMul(power_watts, time_hours), R(1000))
       IN [raised |-> FALSE,
           distance_m |-> distance,
           time_hours |-> time_hours,
           power_watts |-> power_watts,
           energy_kwh |-> energy_kwh,
           slope_degrees |-> slope_degrees,
           velocity_ms |-> velocity,
           roughness |-> roughness]

\* dict.get(key, default)
Get(dict, key, default) == IF key \in DOMAIN dict THEN dict[key] ELSE default

\* The movement loop of estimate_mission_energy from segment i on, with the
\* totals so far: Raised, or the movement energy and the time.
RECURSIVE MovementFrom(_, _, _)
MovementFrom(terrain_segments, i, acc) ==
  IF i > Len(terrain_segments) THEN acc
  ELSE LET segment == terrain_segments[i]
           result ==
             calculate_energy_consumption(
               segment.distance,
               Get(segment, "slope_degrees", R(0)),
               Get(segment, "velocity", NOMINAL_VELOCITY),
               Get(segment, "roughness", R(0)))
       IN IF result.raised THEN Raised
          ELSE MovementFrom(terrain_segments, i + 1,
                 [raised |-> FALSE,
                  total_movement_energy |->
                    RAdd(acc.total_movement_energy, result.energy_kwh),
                  total_time |-> RAdd(acc.total_time, result.time_hours)])

\* Fault variant of TaskLoopFrom: the loop stops after one task.
RECURSIVE TaskLoopFrom_OneTask(_, _, _)
TaskLoopFrom_OneTask(task_dicts, i, acc) ==
  IF i > Len(task_dicts) \/ i > 1 THEN acc
  ELSE LET t == task_dicts[i] IN
       IF ~KnownType(t.type) THEN Raised
       ELSE TaskLoopFrom_OneTask(task_dicts, i + 1,
              [raised |-> FALSE,
               total_task_energy |->
                 RAdd(acc.total_task_energy,
                      calculate_task_energy(t.type, t.duration_hours)),
               total_time |-> RAdd(acc.total_time, t.duration_hours)])

\* The task loop of estimate_mission_energy from task i on.
RECURSIVE TaskLoopFrom(_, _, _)
TaskLoopFrom(task_dicts, i, acc) ==
  IF i > Len(task_dicts) THEN acc
  ELSE LET t == task_dicts[i] IN
       IF ~KnownType(t.type) THEN Raised
       ELSE TaskLoopFrom(task_dicts, i + 1,
              [raised |-> FALSE,
               total_task_energy |->
                 RAdd(acc.total_task_energy,
                      calculate_task_energy(t.type, t.duration_hours)),
               total_time |-> RAdd(acc.total_time, t.duration_hours)])

\* EnergyModel.estimate_mission_energy: Raised, or the returned dict.
estimate_mission_energy(terrain_segments, task_dicts) ==
  LET movement ==
        MovementFrom(terrain_segments, 1,
                     [raised |-> FALSE, total_movement_energy |-> R(0),
                      total_time |-> R(0)])
  IN IF movement.raised THEN Raised
     ELSE LET done ==
                TaskLoopFrom(task_dicts, 1,
                             [raised |-> FALSE, total_task_energy |-> R(0),
                              total_time |-> movement.total_time])
          IN IF done.raised THEN Raised
             ELSE LET total_energy ==
                        RAdd(movement.total_movement_energy,
                             done.total_task_energy)
                  IN [raised |-> FALSE,
                      movement_energy_kwh |-> movement.total_movement_energy,
                      task_energy_kwh |-> done.total_task_energy,
                      total_energy_kwh |-> total_energy,
                      total_time_hours |-> done.total_time,
                      battery_usage_percent |->
                        RMul(RDiv(total_energy, config.BATTERY_CAPACITY),
                             R(100))]

\* Arguments of the direct calculate_energy_consumption calls.
Distances == {R(0), R(1836), R(3672)}
Velocities == {Rat(-1, 100), R(0), Rat(1, 100), NOMINAL_VELOCITY}
Roughnesses == {R(0), Rat(1, 10)}

\* Terrain segment dicts handed to estimate_mission_energy.
SegmentDicts ==
  {[distance |-> R(1836)],
   [distance |-> R(1836), slope_degrees |-> R(90), roughness |-> Rat(1, 10)],
   [distance |-> R(3672), slope_degrees |-> R(-90), velocity |-> Rat(1, 100)],
   [distance |-> R(0), roughness |-> Rat(1, 10)],
   [distance |-> R(1836), velocity |-> R(0)]}

\* Task dicts handed to estimate_mission_energy.
TaskDicts ==
  {[type |-> "drilling", duration_hours |-> R(2)],
   [type |-> "imaging", duration_hours |-> Rat(1, 2)],
   [type |-> "sample_collection", duration_hours |-> R(1)],
   [type |-> "laser", duration_hours |-> R(1)]}

\* All sequences over S of length at most n.
SeqsUpTo(S, n) == UNION {[1..k -> S] : k \in 0..n}

\* An EnergyModel on the default configuration; nothing called yet.
EnergyInit ==
  /\ config = RoverConfig
  /\ task = [id \in TaskIds |-> NewTask(id)]
  /\ SimulatorInit
  /\ BenchIdle
  /\ PureIdle
  /\ TrialsIdle

\* A caller's calculate_energy_consumption call.
CalculateEnergyConsumption(distance, slope_degrees, velocity, roughness) ==
  /\ energy_call = <<>>
  /\ energy_call' =
       <<[function |-> "calculate_energy_consumption",
          distance |-> distance, slope_degrees |-> slope_degrees,
          velocity |-> velocity, roughness |-> roughness,
          outcome |-> calculate_energy_consumption(distance, slope_degrees,
                                                   velocity, roughness)]>>
  /\ UNCHANGED <<mvars, bvars, stats_call, tvars>>

\* A caller's estimate_mission_energy call.
EstimateMissionEnergy(terrain_segments, task_dicts) ==
  /\ energy_call = <<>>
  /\ energy_call' =
       <<[function |-> "estimate_mission_energy",
          terrain_segments |-> terrain_segments, tasks |-> task_dicts,
          outcome |-> estimate_mission_energy(terrain_segments, task_dicts)]>>
  /\ UNCHANGED <<mvars, bvars, stats_call, tvars>>

EnergyNext ==
  \/ \E distance \in Distances, slope_degrees \in Slopes,
        velocity \in Velocities, roughness \in Roughnesses :
       CalculateEnergyConsumption(distance, slope_degrees, velocity, roughness)
  \/ \E terrain_segments \in SeqsUpTo(SegmentDicts, MaxSegments),
        task_dicts \in SeqsUpTo(TaskDicts, MaxTaskDicts) :
       EstimateMissionEnergy(terrain_segments, task_dicts)

SpecEnergy == EnergyInit /\ [][EnergyNext]_vars

\* ------------------------------------ SimpleValidator: scenario generator
\* SimpleValidator.power_map
power_map == <<50, 80, 120, 30, 45, 25>>

\* Fault variant of generate_random_scenario: the energy demands are never
\* scaled up.
generate_random_scenario_NeverScaled(energy_level, draws) ==
  [energy_level |-> energy_level,
   tasks |-> [i \in DOMAIN draws |->
                [id |-> i, duration |-> draws[i].duration,
                 urgency |-> draws[i].urgency, reward |-> draws[i].reward,
                 energy |-> RDiv(RMul(R(power_map[draws[i].type_index]),
                                      draws[i].duration), R(1000))]]]

\* SimpleValidator.generate_random_scenario for the drawn energy level and
\* the values drawn for task 1, 2, ... (num_tasks is the number of draws).
generate_random_scenario(energy_level, draws) ==
  LET total_energy == RMul(battery_capacity, energy_level)
      available_energy == RSub(total_energy, terrain_energy)
      reserve_energy == RMul(available_energy, reserve_ratio)
      usable_energy == RMax(R(0), RSub(available_energy, reserve_energy))
      energy == [i \in DOMAIN draws |->
                   RDiv(RMul(R(power_map[draws[i].type_index]),
                             draws[i].duration), R(1000))]
      total_task_energy == RSum(energy)
      scaled == RLeq(total_task_energy, RMul(usable_energy, R(2)))
      scale_factor == RDiv(RMul(usable_energy, R(3)),
                           RMax(total_task_energy, Rat(1, 10)))
  IN [energy_level |-> energy_level,
      tasks |-> [i \in DOMAIN draws |->
                   [id |-> i,
                    duration |-> IF scaled
                                 THEN RMul(draws[i].duration, scale_factor)
                                 ELSE draws[i].duration,
                    urgency |-> draws[i].urgency,
                    reward |-> draws[i].reward,
                    energy |-> IF scaled THEN RMul(energy[i], scale_factor)
                               ELSE energy[i]]]]

\* random.randint(12, 25): the smallest number of tasks
MinGenTasks == 12

\* Values of 0.05 + random.random() * 0.15
GenLevels == {Rat(5, 100), Rat(125, 1000)}

\* Values drawn for one task: a short low-power one, a long high-power one.
GenDraws ==
  {[type_index |-> 6, duration |-> R(1), urgency |-> R(2), reward |-> R(10)],
   [type_index |-> 3, duration |-> R(7), urgency |-> R(9), reward |-> R(90)]}

\* A validator that has generated nothing yet.
GenInit ==
  /\ config = RoverConfig
  /\ task = [id \in TaskIds |-> NewTask(id)]
  /\ SimulatorInit
  /\ BenchIdle
  /\ PureIdle
  /\ TrialsIdle

\* A generate_random_scenario call; the trial loop keeps its result.
GenerateRandomScenario(energy_level, draws) ==
  /\ scenario.tasks = <<>>
  /\ scenario' = generate_random_scenario(energy_level, draws)
  /\ UNCHANGED <<algorithm, ordered_tasks, execution_result, test_result,
                 trial_valid>>
  /\ UNCHANGED <<mvars, xvars, tvars>>

GenNext ==
  \E energy_level \in GenLevels, num_tasks \in MinGenTasks..MaxGenTasks :
    \E draws \in [1..num_tasks -> GenDraws] :
      GenerateRandomScenario(energy_level, draws)

SpecGen == GenInit /\ [][GenNext]_vars

\* ------------------------- SimpleValidator: the loop over the trials
\* Scenarios a trial can get from the generator, cut down to two tasks
\* whose demands exceed the usable energy.
TrialScenarios ==
  {[energy_level |-> Rat(5, 100),
    tasks |-> WithIds(<<[energy |-> R(1), urgency |-> R(2),
                         reward |-> R(10), duration |-> R(7)],
                        [energy |-> R(1), urgency |-> R(9),
                         reward |-> R(90), duration |-> R(7)]>>)],
   [energy_level |-> Rat(5, 100),
    tasks |-> WithIds(<<[energy |-> R(1), urgency |-> R(8),
                         reward |-> R(90), duration |-> R(0)],
                        [energy |-> R(1), urgency |-> R(3),
                         reward |-> R(90), duration |-> R(7)]>>)]}

\* A validator before the first trial.
TrialsInit ==
  /\ config = RoverConfig
  /\ task = [id \in TaskIds |-> NewTask(id)]
  /\ SimulatorInit
  /\ BenchIdle
  /\ PureIdle
  /\ TrialsIdle

\* The head of a trial: the scenario is generated and the per-trial
\* variables are set.
StartTrial ==
  /\ loop_pc = "loop"
  /\ trial < MaxTrials
  /\ \E s \in TrialScenarios : scenario' = s
  /\ trial_valid' = TRUE
  /\ trial_results' = <<>>
  /\ algorithm' = "none"
  /\ loop_pc' = "policies"
  /\ UNCHANGED <<ordered_tasks, execution_result, test_result>>
  /\ UNCHANGED <<trial, valid_trials, all_results>>
  /\ UNCHANGED <<mvars, xvars>>

\* An exception leaves generate_random_scenario: the outer handler reports
\* the trial and the loop goes on.
GenerateFails ==
  /\ loop_pc = "loop"
  /\ trial < MaxTrials
  /\ trial' = trial + 1
  /\ UNCHANGED <<valid_trials, all_results, trial_results, loop_pc>>
  /\ UNCHANGED <<mvars, bvars, xvars>>

\* An exception leaves the next policy's run_single_algorithm_test: the
\* inner handler marks the trial invalid and breaks out of the policies.
PolicyRaises(alg) ==
  /\ loop_pc = "policies"
  /\ trial_valid
  /\ AlgorithmIndex < Len(Algorithms)
  /\ alg = Algorithms[AlgorithmIndex + 1]
  /\ algorithm' = alg
  /\ trial_valid' = FALSE
  /\ UNCHANGED <<scenario, ordered_tasks, execution_result, test_result>>
  /\ UNCHANGED <<mvars, xvars, tvars>>

\* all with the four metrics of each policy's result appended.
Appended(all, results) ==
  [a \in DOMAIN all |->
     LET result == results[CHOOSE i \in DOMAIN Algorithms : Algorithms[i] = a]
     IN [completion |-> Append(all[a].completion, result.completion_rate),
         efficiency |-> Append(all[a].efficiency, result.efficiency),
         reward |-> Append(all[a].reward, result.total_reward),
         energy |-> Append(all[a].energy, result.energy_used)]]

\* Fault variant of EndTrial: the results of an abandoned trial are
\* appended for the policies that returned one.
EndTrial_KeepsPartial ==
  /\ loop_pc = "policies"
  /\ ~trial_valid \/ AlgorithmIndex = Len(Algorithms)
  /\ all_results' =
       [a \in DOMAIN all_results |->
          LET i == CHOOSE k \in DOMAIN Algorithms : Algorithms[k] = a
          IN IF i \in DOMAIN trial_results
             THEN [completion |-> Append(all_results[a].completion,
                                         trial_results[i].completion_rate),
                   efficiency |-> Append(all_results[a].efficiency,
                                         trial_results[i].efficiency),
                   reward |-> Append(all_results[a].reward,
                                     trial_results[i].total_reward),
                   energy |-> Append(all_results[a].energy,
                                     trial_results[i].energy_used)]
             ELSE all_results[a]]
  /\ valid_trials' = IF trial_valid THEN valid_trials + 1 ELSE valid_trials
  /\ trial' = trial + 1
  /\ loop_pc' = "loop"
  /\ UNCHANGED trial_results
  /\ UNCHANGED <<mvars, bvars, xvars>>

\* The tail of a trial, after the last policy or after the break: a valid
\* trial's results are appended and counted.
EndTrial ==
  /\ loop_pc = "policies"
  /\ ~trial_valid \/ AlgorithmIndex = Len(Algorithms)
  /\ IF trial_valid
     THEN /\ all_results' = Appended(all_results, trial_results)
          /\ valid_trials' = valid_trials + 1
     ELSE UNCHANGED <<all_results, valid_trials>>
  /\ trial' = trial + 1
  /\ loop_pc' = "loop"
  /\ UNCHANGED trial_results
  /\ UNCHANGED <<mvars, bvars, xvars>>

TrialsNext ==
  \/ StartTrial
  \/ GenerateFails
  \/ \E alg \in Range(Algorithms) : RunSingleAlgorithmTest(alg)
  \/ \E alg \in Range(Algorithms) : PolicyRaises(alg)
  \/ EndTrial

SpecTrials == TrialsInit /\ [][TrialsNext]_vars

\* ---------------------------------------- SimpleValidator: effect size
\* statistics.mean of a non-empty list
Mean(xs) == RDiv(RSum(xs), R(Len(xs)))

\* statistics.variance (sample variance) of a list of two or more values
Variance(xs) ==
  LET m == Mean(xs)
  IN RDiv(RSum([i \in DOMAIN xs |-> RMul(RSub(xs[i], m), RSub(xs[i], m))]),
          R(Len(xs) - 1))

\* The real number x / math.sqrt(v) for v > 0, held exactly as its sign
\* and its square; 0.0 is Quotient0.
Quotient0 == [sign |-> 0, square |-> R(0)]
OverSqrt(x, v) ==
  IF x.n = 0 THEN Quotient0
  ELSE [sign |-> IF x.n > 0 THEN 1 ELSE -1, square |-> RDiv(RMul(x, x), v)]

\* Fault variant of calculate_cohens_d: the difference of the means is
\* taken the other way round.
calculate_cohens_d_SecondMinusFirst(group1, group2) ==
  IF Len(group1) = 0 \/ Len(group2) = 0 THEN Quotient0
  ELSE LET mean1 == Mean(group1)
           mean2 == Mean(group2)
           var1 == IF Len(group1) = 1 THEN R(0) ELSE Variance(group1)
           var2 == IF Len(group2) = 1 THEN R(0) ELSE Variance(group2)
           pooled_variance == RDiv(RAdd(var1, var2), R(2))
       IN IF pooled_variance = R(0) THEN Quotient0
          ELSE OverSqrt(RSub(mean2, mean1), pooled_variance)

\* SimpleValidator.calculate_cohens_d.  math.sqrt(x) is 0 exactly when x
\* is, so the test of pooled_std is made on the pooled variance.
calculate_cohens_d(group1, group2) ==
  IF Len(group1) = 0 \/ Len(group2) = 0 THEN Quotient0
  ELSE LET mean1 == Mean(group1)
           mean2 == Mean(group2)
           var1 == IF Len(group1) = 1 THEN R(0) ELSE Variance(group1)
           var2 == IF Len(group2) = 1 THEN R(0) ELSE Variance(group2)
           pooled_variance == RDiv(RAdd(var1, var2), R(2))
       IN IF pooled_variance = R(0) THEN Quotient0
          ELSE OverSqrt(RSub(mean1, mean2), pooled_variance)

\* Metric values of the groups compared.
GroupValues == {R(0), R(50), R(100)}

\* A validator; no effect size computed yet.
StatsInit ==
  /\ config = RoverConfig
  /\ task = [id \in TaskIds |-> NewTask(id)]
  /\ SimulatorInit
  /\ BenchIdle
  /\ PureIdle
  /\ TrialsIdle

\* A caller's calculate_cohens_d call.
CalculateCohensD(group1, group2) ==
  /\ stats_call = <<>>
  /\ stats_call' =
       <<[group1 |-> group1, group2 |-> group2,
          d |-> calculate_cohens_d(group1, group2)]>>
  /\ UNCHANGED <<mvars, bvars, energy_call, tvars>>

StatsNext ==
  \E group1 \in SeqsUpTo(GroupValues, MaxGroup),
     group2 \in SeqsUpTo(GroupValues, MaxGroup) :
    CalculateCohensD(group1, group2)

SpecStats == StatsInit /\ [][StatsNext]_vars

\* ------------------------------------------------- the greedy loop
\* The number of tasks the for loop of run_mission_simulation completes
\* when it is entered at position i of `order` with battery `level`, given
\* the energy costs the tasks carry.
RECURSIVE CompletedFrom(_, _, _)
CompletedFrom(order, i, level) ==
  IF i > Len(order) THEN 0
  ELSE IF is_critical_energy(level) THEN 0
  ELSE LET cost == task[order[i]].energy_cost IN
       IF CanExecuteAt(level, cost)
       THEN 1 + CompletedFrom(order, i + 1,
                              RSub(level, RDiv(cost, config.BATTERY_CAPACITY)))
       ELSE CompletedFrom(order, i + 1, level)

\* The positions of `costs` the for loop of run_mission_simulation
\* completes when it is entered at position i with battery `level` on tasks
\* carrying these energy costs.
RECURSIVE EngineCompleted(_, _, _)
EngineCompleted(costs, i, level) ==
  IF i > Len(costs) THEN {}
  ELSE IF is_critical_energy(level) THEN {}
  ELSE IF CanExecuteAt(level, costs[i])
       THEN {i} \cup
            EngineCompleted(costs, i + 1,
                            RSub(level, RDiv(costs[i], config.BATTERY_CAPACITY)))
       ELSE EngineCompleted(costs, i + 1, level)

\* Battery levels a run can enter its loop with.
StartLevels ==
  {R(1)} \cup
  {simulate_terrain_traversal(p).battery_level_after : p \in TerrainProfiles}

\* The loop of the run in progress is over.
LoopOver == pc \in {"stats", "done"}

\* The stepwise loop and its closed form agree.
LoopAgrees ==
  LoopOver => Len(completed_tasks) = CompletedFrom(prioritized_tasks, 1, start_level)

\* ============================================================ claims

\* C1 (as stated): when the loop meets a battery level at or below the
\* critical threshold it halts there, every task from that position of
\* the priority order on is marked Deferred (its flag is set and it is in
\* deferred_tasks) and none of them is marked Completed; the run still
\* returns its result.
C1_HaltDefersRemaining ==
  /\ (LoopOver /\ halt_idx > 0) =>
       \A i \in halt_idx..Len(prioritized_tasks) :
         LET t == prioritized_tasks[i] IN
           /\ task[t].deferred
           /\ t \in Range(deferred_tasks)
           /\ ~task[t].completed
           /\ t \notin Range(completed_tasks)
  /\ (pc = "done" /\ halt_idx > 0) => mission_results # <<>>

\* C2 (as stated): for the order a run executes, starting the greedy loop
\* from a battery level b1 that is at least the critical threshold and at
\* most the level b2 the run started from completes no more tasks than the
\* run did.
C2_MonotonicAnyOrder ==
  LoopOver =>
    \A b1 \in StartLevels :
      (RLeq(CRITICAL_ENERGY_THRESHOLD, b1) /\ RLeq(b1, start_level)) =>
        CompletedFrom(prioritized_tasks, 1, b1) <= Len(completed_tasks)

NonDecreasingEnergy(order) ==
  \A i, j \in DOMAIN order :
    i < j => RLeq(task[order[i]].energy_cost, task[order[j]].energy_cost)

\* C2 (amended): the same, for orders that are non-decreasing in energy
\* cost; the completed count of the run is the count of the loop's closed
\* form from the run's starting level.
C2_MonotonicAscendingOrder ==
  (LoopOver /\ NonDecreasingEnergy(prioritized_tasks)) =>
    /\ Len(completed_tasks) = CompletedFrom(prioritized_tasks, 1, start_level)
    /\ \A b1 \in StartLevels :
         (RLeq(CRITICAL_ENERGY_THRESHOLD, b1) /\ RLeq(b1, start_level)) =>
           CompletedFrom(prioritized_tasks, 1, b1) <= Len(completed_tasks)

\* C2 witness: a finished run over an energy-ascending order of at least
\* two tasks of different cost that completed strictly more tasks than the
\* loop does from a lower admissible level.
C2_Witness ==
  /\ LoopOver
  /\ Len(prioritized_tasks) >= 2
  /\ NonDecreasingEnergy(prioritized_tasks)
  /\ RLt(task[prioritized_tasks[1]].energy_cost,
         task[prioritized_tasks[Len(prioritized_tasks)]].energy_cost)
  /\ \E b1 \in StartLevels :
       /\ RLt(CRITICAL_ENERGY_THRESHOLD, b1)
       /\ RLt(b1, start_level)
       /\ CompletedFrom(prioritized_tasks, 1, b1) < Len(completed_tasks)
       /\ CompletedFrom(prioritized_tasks, 1, b1) > 0

\* C3: in every state and for every task, can_execute_task answers true
\* exactly when the battery level is strictly above the critical threshold
\* and the task's energy cost is at most
\* max(0, level * BATTERY_CAPACITY - BATTERY_CAPACITY * ENERGY_RESERVE_RATIO).
C3_CanExecuteIff ==
  \A t \in TaskIds :
    can_execute_task(t) <=>
      /\ RLt(Rat(10, 100), current_battery_level)
      /\ RLeq(task[t].energy_cost,
              RMax(R(0),
                   RSub(RMul(current_battery_level, Rat(4224, 100)),
                        RMul(Rat(4224, 100), Rat(20, 100)))))

\* C3 witness: the battery is exactly at the critical threshold, a task
\* costs no more than the (zero) available energy, and the answer is false;
\* another task at this point has been completed by an earlier answer true.
C3_Witness ==
  /\ current_battery_level = Rat(10, 100)
  /\ \E t \in TaskIds :
       /\ RLeq(task[t].energy_cost, get_available_energy(current_battery_level))
       /\ ~can_execute_task(t)
  /\ pc = "execute"

\* C4 (as stated): after execute_task returns true the battery level is
\* strictly lower than before the call and the task is completed and in
\* completed_tasks; after it returns false the task is deferred and in
\* deferred_tasks.
C4_ExecuteTaskOutcome ==
  last_call # <<>> =>
    LET c == last_call[1] IN
      /\ c.returned =>
           /\ RLt(current_battery_level, c.battery_before)
           /\ task[c.task].completed
           /\ c.task \in Range(completed_tasks)
      /\ ~c.returned =>
           /\ task[c.task].deferred
           /\ c.task \in Range(deferred_tasks)

\* C5 (as stated): a feasible execute_task call completes the task, lowers
\* the battery by exactly energy_cost / BATTERY_CAPACITY and appends one
\* log record carrying that energy and the new level; the log has one
\* record per completed task, in completion order, and its
\* battery_level_after values never increase.
C5_CompletionAccounting ==
  /\ (last_call # <<>> /\ CanExecuteAt(last_call[1].battery_before,
                                        last_call[1].energy_cost)) =>
       LET c == last_call[1] IN
         /\ c.returned
         /\ task[c.task].completed
         /\ completed_tasks = Append(c.completed_before, c.task)
         /\ current_battery_level =
              RSub(c.battery_before, RDiv(c.energy_cost, Rat(4224, 100)))
         /\ Len(mission_log) = Len(c.log_before) + 1
         /\ SubSeq(mission_log, 1, Len(c.log_before)) = c.log_before
         /\ mission_log[Len(mission_log)].energy_consumed_kwh = c.energy_cost
         /\ mission_log[Len(mission_log)].battery_level_after = current_battery_level
  /\ Len(mission_log) = Len(completed_tasks)
  /\ \A i \in DOMAIN mission_log : mission_log[i].task_id = completed_tasks[i]
  /\ \A i \in DOMAIN mission_log :
       i > 1 => RLeq(mission_log[i].battery_level_after,
                     mission_log[i - 1].battery_level_after)

\* C7 (as stated): a run that directly follows a finished run on the same
\* task list and terrain returns the same completed count, deferred count,
\* completion rate and final battery level.
C7_RerunSameSummary ==
  (pc = "done" /\ prev_summary # <<>>) =>
    LET now == mission_results[1].mission_summary
        before == prev_summary[1]
    IN /\ now.completed_tasks = before.completed_tasks
       /\ now.deferred_tasks = before.deferred_tasks
       /\ now.completion_rate = before.completion_rate
       /\ now.final_battery_level = before.final_battery_level

\* The energy available to tasks at battery level `level`, as the
\* specification states it.
StatedAvailable(level) ==
  RMax(R(0), RSub(RMul(level, Rat(4224, 100)),
                  RMul(Rat(4224, 100), Rat(20, 100))))

\* The latest execute_task call was made by the loop of a run.
CallInRun == last_call # <<>> /\ pc \in {"execute", "stats"}

\* C6: an execute_task call on a task whose cost exceeds the available
\* energy, made with the battery above the critical threshold, returns
\* false, marks the task Deferred and appends it (alone) to deferred_tasks,
\* and leaves the battery level, completed_tasks and mission_log as they
\* were.  In a run the loop then goes on to the next task, ending only
\* after the last one and without a critical halt; and a call made after a
\* deferral of the run, on a task whose cost fits the available energy with
\* the battery above critical, completes that task.
C6_DeferralKeepsGoing ==
  last_call # <<>> =>
    LET c == last_call[1]
        above == RLt(Rat(10, 100), c.battery_before)
        fits == RLeq(c.energy_cost, StatedAvailable(c.battery_before))
    IN /\ (above /\ ~fits) =>
            /\ ~c.returned
            /\ task[c.task].deferred
            /\ deferred_tasks = Append(c.deferred_before, c.task)
            /\ current_battery_level = c.battery_before
            /\ completed_tasks = c.completed_before
            /\ mission_log = c.log_before
       /\ CallInRun =>
            /\ halt_idx = 0
            /\ pc = "execute" <=> idx <= Len(prioritized_tasks)
       /\ (CallInRun /\ c.deferred_before # <<>> /\ above /\ fits) =>
            /\ c.returned
            /\ task[c.task].completed
            /\ completed_tasks = Append(c.completed_before, c.task)

\* C6 witness: in a first run, with the battery above critical, a task
\* has been deferred for lack of energy and a later task of the order has
\* just been completed.
C6_Witness ==
  /\ CallInRun
  /\ runs = 1
  /\ last_call[1].returned
  /\ last_call[1].deferred_before # <<>>
  /\ RLt(Rat(0, 1), last_call[1].energy_cost)
  /\ \E i \in 1..(idx - 2) :
       /\ prioritized_tasks[i] \in Range(deferred_tasks)
       /\ RLt(StatedAvailable(start_level), task[prioritized_tasks[i]].energy_cost)

\* out holds the elements of in, each as often as in does.
IsPermutation(out, in) ==
  /\ Len(out) = Len(in)
  /\ \A x \in Range(in) \cup Range(out) :
       Cardinality({i \in DOMAIN out : out[i] = x}) =
       Cardinality({i \in DOMAIN in : in[i] = x})

\* out is in, sorted ascending by cost, equal costs in the order of in
\* (the elements of in are distinct).
IsStableSortOf(out, in, cost(_)) ==
  /\ IsPermutation(out, in)
  /\ \A i, j \in DOMAIN out :
       i < j =>
         /\ RLeq(cost(out[i]), cost(out[j]))
         /\ cost(out[i]) = cost(out[j]) =>
              \E k, l \in DOMAIN in : k < l /\ in[k] = out[i] /\ in[l] = out[j]

\* The run in progress has prioritized its tasks.
Prioritized == pc \in {"execute", "stats", "done"}

\* The benchmark's view of the run's tasks: same energies, urgencies,
\* rewards and durations.
BenchView(ts) ==
  [i \in DOMAIN ts |->
     [id |-> ts[i], duration |-> task[ts[i]].duration_hours,
      urgency |-> task[ts[i]].urgency, reward |-> task[ts[i]].reward,
      energy |-> task[ts[i]].energy_cost]]

\* C8 (as stated): the order prioritize_tasks gives a run is the order
\* our_prioritization_scheduler gives the same tasks.
C8_SameOrderAsBenchmark ==
  Prioritized =>
    BenchView(prioritized_tasks) = our_prioritization_scheduler(BenchView(tasks))

\* The three-term cost of a task.
ThreeTermCost(id) ==
  RAdd(RAdd(RMul(R(1), task[id].energy_cost),
            RMul(Rat(1, 2), RDiv(R(1), RMax(task[id].urgency, Rat(1, 10))))),
       RMul(R(-2), task[id].reward))

\* C8 (amended): prioritize_tasks orders the run's tasks ascending by
\* 1.0 * energy + 0.5 * (1 / max(urgency, 0.1)) - 2.0 * reward, tasks of
\* equal cost in input order; the efficiency bonus and the urgency step
\* term are not part of it.
C8_ThreeTermOrder ==
  Prioritized => IsStableSortOf(prioritized_tasks, tasks, ThreeTermCost)

\* C8 witness: a run has prioritized at least two tasks into an order that
\* is neither the input order nor the benchmark scheduler's order.
C8_Witness ==
  /\ pc = "execute"
  /\ Len(prioritized_tasks) >= 2
  /\ prioritized_tasks # tasks
  /\ BenchView(prioritized_tasks) # our_prioritization_scheduler(BenchView(tasks))

\* The cost of a benchmark task, as the specification states it.
StatedBenchCost(t) ==
  LET tau == IF RLt(R(8), t.urgency) THEN R(-1)
             ELSE IF RLt(t.urgency, R(3)) THEN Rat(1, 2)
             ELSE R(0)
  IN RAdd(RSub(RSub(RAdd(RMul(R(1), t.energy),
                         RMul(Rat(1, 2),
                              RDiv(R(1), RMax(t.urgency, Rat(1, 10))))),
                    RMul(R(2), t.reward)),
               RMul(Rat(1, 2), RDiv(t.reward, RMax(t.energy, Rat(1, 1000))))),
          tau)

\* Tasks a and b are equal in everything but reward, and a's is higher.
HigherRewardOnly(a, b) ==
  /\ a.energy = b.energy
  /\ a.urgency = b.urgency
  /\ a.duration = b.duration
  /\ RLt(b.reward, a.reward)

\* C9: our_prioritization_scheduler returns the scenario's tasks sorted
\* ascending by 1.0 * energy + 0.5 * (1 / max(urgency, 0.1)) - 2.0 * reward
\* - 0.5 * (reward / max(energy, 0.001)) + tau(urgency), tau being -1.0 for
\* urgency > 8, +0.5 for urgency < 3 and 0 otherwise; tasks of equal cost
\* keep their input order, and of two tasks equal in everything but reward
\* the one with the higher reward comes first.
C9_BenchCostOrder ==
  algorithm = "OurAlgorithm" =>
    /\ IsStableSortOf(ordered_tasks, scenario.tasks, StatedBenchCost)
    /\ \A i, j \in DOMAIN ordered_tasks :
         HigherRewardOnly(ordered_tasks[i], ordered_tasks[j]) => i < j

\* C9 witness: the scheduler has moved a task in front of an earlier one
\* that differs from it only by a lower reward, at urgency exactly 8.
C9_Witness ==
  /\ algorithm = "OurAlgorithm"
  /\ Len(ordered_tasks) = 2
  /\ ordered_tasks # scenario.tasks
  /\ HigherRewardOnly(ordered_tasks[1], ordered_tasks[2])
  /\ ordered_tasks[1].urgency = R(8)

\* C10: the order prioritize_tasks gives a run is a permutation of the
\* run's task list, and every benchmark policy (FIFO, EnergyGreedy,
\* UrgencyFirst, Random in each of its outcomes, WSPT, multi-criteria)
\* returns a permutation of its input, here the benchmark's view of the
\* run's tasks.
C10_PoliciesPermute ==
  Prioritized =>
    /\ IsPermutation(prioritized_tasks, tasks)
    /\ \A i \in DOMAIN Algorithms :
         \A out \in Schedule(Algorithms[i], BenchView(tasks)) :
           IsPermutation(out, BenchView(tasks))

\* C10 witness: a run has reordered three tasks, two of them of equal
\* cost, and the Random policy has more than one outcome on them.
C10_Witness ==
  /\ pc = "execute"
  /\ Len(tasks) = 3
  /\ prioritized_tasks # tasks
  /\ \E i, j \in DOMAIN tasks :
       i # j /\ ThreeTermCost(tasks[i]) = ThreeTermCost(tasks[j])
  /\ Cardinality(random_scheduler(BenchView(tasks))) > 1

\* out is in with keys non-increasing, equal keys in the order of in.
IsStableDescendingSortOf(out, in, key(_)) ==
  /\ IsPermutation(out, in)
  /\ \A i, j \in DOMAIN out :
       i < j =>
         /\ RLeq(key(out[j]), key(out[i]))
         /\ key(out[i]) = key(out[j]) =>
              \E k, l \in DOMAIN in : k < l /\ in[k] = out[i] /\ in[l] = out[j]

EnergyKey(t) == t.energy
UrgencyKey(t) == t.urgency
\* reward / max(duration, epsilon), epsilon = 0.01
WsptKey(t) ==
  IF RLt(t.duration, Rat(1, 100))
  THEN RMul(t.reward, R(100)) ELSE RDiv(t.reward, t.duration)

\* C11: FIFO returns the scenario's tasks in arrival order; EnergyGreedy
\* returns them non-decreasing in energy; UrgencyFirst non-increasing in
\* urgency; WSPT non-increasing in reward / max(duration, 0.01); in each
\* sorted policy tasks of equal key keep their input order.
C11_BaselineOrders ==
  /\ algorithm = "FIFO" => ordered_tasks = scenario.tasks
  /\ algorithm = "EnergyGreedy" =>
       IsStableSortOf(ordered_tasks, scenario.tasks, EnergyKey)
  /\ algorithm = "UrgencyFirst" =>
       IsStableDescendingSortOf(ordered_tasks, scenario.tasks, UrgencyKey)
  /\ algorithm = "WSPT" =>
       IsStableDescendingSortOf(ordered_tasks, scenario.tasks, WsptKey)

\* C11 witness: WSPT has moved a task of zero duration (the floor applies)
\* and lower reward in front of a task of higher reward.
C11_Witness ==
  /\ algorithm = "WSPT"
  /\ Len(ordered_tasks) = 2
  /\ ordered_tasks # scenario.tasks
  /\ ordered_tasks[1].duration = R(0)
  /\ RLt(ordered_tasks[1].reward, ordered_tasks[2].reward)

\* The power, in W, the configuration gives each task type.
StatedPower ==
  [navigation |-> 50, sample_collection |-> 80, drilling |-> 120,
   imaging |-> 30, spectrometry |-> 45, communication |-> 25, idle |-> 10]

\* The energy cost stated for task id: power * duration / 1000.
StatedTaskEnergy(id) ==
  RDiv(RMul(R(StatedPower[task[id].task_type]), task[id].duration_hours),
       R(1000))

\* C12: the cost computation of a run fails exactly when a task of the
\* list has a type that is no key of TASK_POWER: a failed run has such a
\* task, and the tasks before the first such task carry their computed
\* cost; a run that got past the computation has none, and every task of
\* it carries TASK_POWER[type] * duration_hours / 1000, in a first run and
\* in a repeated one.
C12_TaskEnergy ==
  /\ pc = "failed" =>
       \E i \in DOMAIN tasks :
         /\ task[tasks[i]].task_type \notin DOMAIN StatedPower
         /\ \A j \in 1..(i - 1) :
              /\ task[tasks[j]].task_type \in DOMAIN StatedPower
              /\ task[tasks[j]].energy_cost = StatedTaskEnergy(tasks[j])
  /\ Prioritized =>
       \A id \in Range(tasks) :
         /\ task[id].task_type \in DOMAIN StatedPower
         /\ task[id].energy_cost = StatedTaskEnergy(id)

\* C12 witness: a run failed on a task of unknown type after computing a
\* non-zero cost for a task before it.
C12_Witness ==
  /\ pc = "failed"
  /\ Len(tasks) >= 2
  /\ task[tasks[1]].energy_cost # R(0)
  /\ task[tasks[1]].energy_cost = StatedTaskEnergy(tasks[1])

\* C13 (as stated): a run whose task list holds a task of non-positive
\* duration never gets to ordering or executing its tasks.
C13_NonPositiveDurationRejected ==
  Prioritized => \A id \in Range(tasks) : RLt(R(0), task[id].duration_hours)

\* C20: in the result of a run, total_energy_consumed_kwh is
\* (1 - final battery level) * 42.24, task_energy_kwh is the sum of the
\* completed tasks' energy costs, and total_energy_consumed_kwh is the
\* traversal's energy (0 without terrain) plus task_energy_kwh.
C20_EnergyAccounting ==
  pc = "done" =>
    LET res == mission_results[1]
        s == res.mission_summary
        traversal_energy ==
          IF terrain = NoTerrain THEN R(0) ELSE RSum(terrain[1])
    IN /\ s.total_energy_consumed_kwh =
            RMul(RSub(R(1), s.final_battery_level), Rat(4224, 100))
       /\ s.final_battery_level = current_battery_level
       /\ s.task_energy_kwh =
            RSum([i \in DOMAIN res.completed_tasks |->
                    task[res.completed_tasks[i]].energy_cost])
       /\ s.total_energy_consumed_kwh = RAdd(traversal_energy, s.task_energy_kwh)
       /\ (terrain # NoTerrain) =>
            res.traversal_summary[1].total_energy_kwh = traversal_energy

\* C20 witness: a run over terrain has returned with two tasks completed
\* and one deferred.
C20_Witness ==
  /\ pc = "done"
  /\ terrain # NoTerrain
  /\ Len(completed_tasks) = 2
  /\ Len(deferred_tasks) = 1
  /\ RLt(R(0), mission_results[1].mission_summary.task_energy_kwh)

\* C19: on a simulator with battery capacity 10 kWh, reserve ratio 0.2
\* and battery level 1.0, with tasks A (3 kWh) and B (6 kWh) executed in
\* the order A, B: A is evaluated against 8 kWh and completes, leaving
\* battery level 0.7; B is evaluated against 5 kWh and is deferred; the
\* outcome is completed = [A], deferred = [B], battery level 0.7.
C19_Example ==
  /\ (direct_calls = 1 /\ last_call[1].task = "A") =>
       /\ last_call[1].energy_cost = R(3)
       /\ last_call[1].battery_before = R(1)
       /\ get_available_energy(last_call[1].battery_before) = R(8)
       /\ last_call[1].returned
       /\ current_battery_level = Rat(7, 10)
  /\ (direct_calls = 2 /\ last_call[1].task = "B"
        /\ last_call[1].completed_before \o last_call[1].deferred_before = <<"A">>) =>
       /\ last_call[1].energy_cost = R(6)
       /\ last_call[1].battery_before = Rat(7, 10)
       /\ get_available_energy(last_call[1].battery_before) = R(5)
       /\ ~last_call[1].returned
       /\ completed_tasks = <<"A">>
       /\ deferred_tasks = <<"B">>
       /\ task["A"].completed /\ task["B"].deferred
       /\ current_battery_level = Rat(7, 10)

\* C19 witness: the two calls of the example have been made.
C19_Witness ==
  /\ direct_calls = 2
  /\ last_call[1].task = "B"
  /\ completed_tasks = <<"A">>
  /\ deferred_tasks = <<"B">>

\* The call recorded, if it is a call of function f.
CallsOf(f) == {i \in DOMAIN energy_call : energy_call[i].function = f}

\* C14: calculate_energy_consumption raises exactly when the velocity is
\* zero or negative, whatever the distance, slope and roughness are; with a
\* positive velocity it raises nothing and returns the breakdown of the
\* segment (distance, time, power, energy, slope, velocity, roughness).
C14_VelocityValidation ==
  \A i \in CallsOf("calculate_energy_consumption") :
    LET call == energy_call[i] IN
    /\ call.outcome.raised <=> call.velocity.n <= 0
    /\ ~call.outcome.raised =>
         /\ DOMAIN call.outcome =
              {"raised", "distance_m", "time_hours", "power_watts",
               "energy_kwh", "slope_degrees", "velocity_ms", "roughness"}
         /\ call.outcome.distance_m = call.distance
         /\ call.outcome.slope_degrees = call.slope_degrees
         /\ call.outcome.velocity_ms = call.velocity
         /\ call.outcome.roughness = call.roughness

\* A call at zero velocity over a real distance on a slope was rejected.
C14_Witness ==
  \E i \in CallsOf("calculate_energy_consumption") :
    /\ energy_call[i].velocity = R(0)
    /\ energy_call[i].distance = R(1836)
    /\ energy_call[i].slope_degrees = R(90)
    /\ energy_call[i].roughness = Rat(1, 10)
    /\ energy_call[i].outcome.raised

\* The rearrangements of sequence s.
Perms(s) == {p \in [DOMAIN s -> Range(s)] : IsPermutation(p, s)}

\* The energy of one terrain segment, with the defaults of a missing key.
SegmentEnergy(segment) ==
  calculate_energy_consumption(segment.distance,
                               Get(segment, "slope_degrees", R(0)),
                               Get(segment, "velocity", NOMINAL_VELOCITY),
                               Get(segment, "roughness", R(0))).energy_kwh

\* C15: when estimate_mission_energy returns, its movement energy is the
\* sum of the segment energies, its task energy the sum of the task
\* energies and its total the sum of the two; with both lists empty all
\* five figures are zero; and the totals are the same for every order of
\* the segments and of the tasks.  (Sums are exact here; float rounding is
\* not modelled.)
C15_EstimateTotals ==
  \A i \in CallsOf("estimate_mission_energy") :
    LET call == energy_call[i]
        out == call.outcome
    IN ~out.raised =>
         /\ out.movement_energy_kwh =
              RSum([k \in DOMAIN call.terrain_segments |->
                      SegmentEnergy(call.terrain_segments[k])])
         /\ out.task_energy_kwh =
              RSum([k \in DOMAIN call.tasks |->
                      RDiv(RMul(R(StatedPower[call.tasks[k].type]),
                                call.tasks[k].duration_hours), R(1000))])
         /\ out.total_energy_kwh =
              RAdd(out.movement_energy_kwh, out.task_energy_kwh)
         /\ (call.terrain_segments = <<>> /\ call.tasks = <<>>) =>
              /\ out.movement_energy_kwh = R(0)
              /\ out.task_energy_kwh = R(0)
              /\ out.total_energy_kwh = R(0)
              /\ out.total_time_hours = R(0)
              /\ out.battery_usage_percent = R(0)
         /\ \A ps \in Perms(call.terrain_segments), pt \in Perms(call.tasks) :
              estimate_mission_energy(ps, pt) = out

\* An estimate over two different segments and two different tasks
\* returned a total with a movement part and a task part.
C15_Witness ==
  \E i \in CallsOf("estimate_mission_energy") :
    LET call == energy_call[i] IN
    /\ Len(call.terrain_segments) = 2
    /\ call.terrain_segments[1] # call.terrain_segments[2]
    /\ Len(call.tasks) = 2
    /\ call.tasks[1] # call.tasks[2]
    /\ ~call.outcome.raised
    /\ call.outcome.movement_energy_kwh.n > 0
    /\ call.outcome.task_energy_kwh.n > 0

\* The value stated for two non-empty groups whose pooled variance is not
\* zero: (mean1 - mean2) / sqrt((var1 + var2) / 2), a group of one value
\* having variance 0.
StatedVariance(xs) == IF Len(xs) = 1 THEN R(0) ELSE Variance(xs)
StatedPooled(g1, g2) == RDiv(RAdd(StatedVariance(g1), StatedVariance(g2)), R(2))
StatedCohensD(g1, g2) == OverSqrt(RSub(Mean(g1), Mean(g2)), StatedPooled(g1, g2))

\* The negation of a value held as sign and square.
Negated(q) == [sign |-> -q.sign, square |-> q.square]

\* C18: calculate_cohens_d returns exactly 0 when the two groups are the
\* same sequence, when the pooled standard deviation is 0 and when either
\* group is empty; otherwise it returns (mean1 - mean2) / pooled_std, and
\* swapping the groups negates the value.
C18_CohensD ==
  \A i \in DOMAIN stats_call :
    LET g1 == stats_call[i].group1
        g2 == stats_call[i].group2
        d == stats_call[i].d
    IN /\ g1 = g2 => d = Quotient0
       /\ (g1 = <<>> \/ g2 = <<>>) => d = Quotient0
       /\ (g1 # <<>> /\ g2 # <<>>) =>
            IF StatedPooled(g1, g2) = R(0) THEN d = Quotient0
            ELSE d = StatedCohensD(g1, g2)
       /\ calculate_cohens_d(g2, g1) = Negated(d)

\* Two groups of different means, one of them with a spread, were compared
\* and the value is negative.
C18_Witness ==
  \E i \in DOMAIN stats_call :
    /\ Len(stats_call[i].group1) = 1
    /\ Len(stats_call[i].group2) = 3
    /\ StatedPooled(stats_call[i].group1, stats_call[i].group2) # R(0)
    /\ stats_call[i].d.sign = -1

\* The usable energy stated for a level: 0.8 * (capacity * level - terrain).
StatedUsable(level) ==
  RMul(Rat(8, 10), RSub(RMul(Rat(4224, 100), level), Rat(61, 1000)))

\* The total task energy of the scenario held.
ScenarioTaskEnergy ==
  RSum([i \in DOMAIN scenario.tasks |-> scenario.tasks[i].energy])

\* The orders the four baseline sorts give the scenario held, and its
\* reverse.
ScenarioOrders ==
  {fifo_scheduler(scenario.tasks), energy_greedy_scheduler(scenario.tasks),
   urgency_first_scheduler(scenario.tasks), wspt_scheduler(scenario.tasks),
   [i \in DOMAIN scenario.tasks |->
      scenario.tasks[Len(scenario.tasks) + 1 - i]]}

\* C16: every generated scenario has a total task energy strictly above
\* the usable energy 0.8 * (battery_capacity * energy_level -
\* terrain_energy), whether or not the demands were scaled up, and no
\* order of its tasks completes all of them (checked on the generated
\* order, its reverse and the three sorted baseline orders).
C16_GeneratedOverSubscribed ==
  scenario.tasks # <<>> =>
    /\ RLt(StatedUsable(scenario.energy_level), ScenarioTaskEnergy)
    /\ \A ordered \in ScenarioOrders :
         Len(simulate_task_execution(ordered, scenario.energy_level)
               .completed_tasks) < Len(scenario.tasks)

\* A scenario of twelve low-power tasks was generated: its demands were
\* scaled up to three times the usable energy.
C16_Witness ==
  /\ Len(scenario.tasks) = MinGenTasks
  /\ \A i \in DOMAIN scenario.tasks : scenario.tasks[i].reward = R(10)
  /\ ScenarioTaskEnergy = RMul(R(3), StatedUsable(scenario.energy_level))

\* The four metric lists of every policy have length n.
AllListsOfLength(n) ==
  \A a \in DOMAIN all_results :
    /\ Len(all_results[a].completion) = n
    /\ Len(all_results[a].efficiency) = n
    /\ Len(all_results[a].reward) = n
    /\ Len(all_results[a].energy) = n

\* This step leaves a trial in which a policy raised.
LeavesFailedTrial ==
  loop_pc = "policies" /\ ~trial_valid /\ loop_pc' = "loop"

\* C17: the trial loop is all-or-nothing per trial.  The completion,
\* efficiency, reward and energy lists of all six policies always have one
\* length, valid_trials, which is at most the number of trials attempted;
\* a trial in which a policy raised appends nothing for any policy, also
\* not for the policies that had returned a result, and is followed by
\* the next trial while trials remain.
C17_AllOrNothing ==
  /\ [](/\ AllListsOfLength(valid_trials)
        /\ valid_trials <= trial + (IF loop_pc = "policies" THEN 1 ELSE 0)
        /\ trial <= MaxTrials)
  /\ [][LeavesFailedTrial =>
          /\ all_results' = all_results
          /\ valid_trials' = valid_trials
          /\ trial' = trial + 1]_vars
  /\ []((loop_pc = "loop" /\ trial < MaxTrials) => ENABLED StartTrial)

\* The second trial was abandoned after some policies had returned their
\* results; the first one was valid and a third is still to come.
C17_Witness ==
  /\ loop_pc = "loop"
  /\ trial = 2
  /\ valid_trials = 1
  /\ ~trial_valid
  /\ Len(trial_results) >= 3
  /\ AllListsOfLength(1)

\* The ids of the tasks the policy last run has completed.
BenchCompletedIds ==
  {execution_result[1].completed_tasks[i].id :
     i \in DOMAIN execution_result[1].completed_tasks}

\* The energies of the tasks in the order the policy returned.
OrderedEnergies == [i \in DOMAIN ordered_tasks |-> ordered_tasks[i].energy]

\* C21 (as stated): for the same capacity, reserve ratio, energy level and
\* ordered task energies, simulate_task_execution completes exactly the
\* tasks the mission engine's loop completes.
C21_SameAsEngineLoop ==
  execution_result # <<>> =>
    BenchCompletedIds =
      {ordered_tasks[i].id :
         i \in EngineCompleted(OrderedEnergies, 1, scenario.energy_level)}

\* The positions accepted by the benchmark's own rule: a task is accepted
\* iff its energy is at most the running usable energy, which is reduced
\* by the energy of every accepted task.
RECURSIVE StatedBenchAccepted(_, _, _)
StatedBenchAccepted(energies, i, usable) ==
  IF i > Len(energies) THEN {}
  ELSE IF RLeq(energies[i], usable)
       THEN {i} \cup StatedBenchAccepted(energies, i + 1,
                                         RSub(usable, energies[i]))
       ELSE StatedBenchAccepted(energies, i + 1, usable)

\* C21 (amended): simulate_task_execution accepts a task iff its energy is
\* at most the running usable energy, which starts at
\* max(0, 0.8 * (capacity * level - terrain_energy)) and is reduced by the
\* energy of each completed task; there is no critical-energy test.
C21_BenchOwnRule ==
  execution_result # <<>> =>
    BenchCompletedIds =
      {ordered_tasks[i].id :
         i \in StatedBenchAccepted(OrderedEnergies, 1,
                                    RMax(R(0), StatedUsable(scenario.energy_level)))}

\* The benchmark has completed two tasks with energy demands at a level
\* where the mission engine's loop completes none.
C21_Witness ==
  /\ execution_result # <<>>
  /\ Cardinality(BenchCompletedIds) = 2
  /\ \A i \in DOMAIN ordered_tasks : ordered_tasks[i].energy # R(0)
  /\ EngineCompleted(OrderedEnergies, 1, scenario.energy_level) = {}

\* Draws for twelve tasks: all short and low-power (scaled up), all long
\* and high-power (not scaled), one long among short ones (scaled up).
RescaleSamples ==
  LET small == CHOOSE d \in GenDraws : d.type_index = 6
      large == CHOOSE d \in GenDraws : d.type_index = 3
  IN {[i \in 1..MinGenTasks |-> small],
      [i \in 1..MinGenTasks |-> large],
      [i \in 1..MinGenTasks |-> IF i = 1 THEN large ELSE small]}

\* The generator multiplies the energy and the duration of every task of
\* a scenario by one factor (1 when it does not rescale).
RescalingUniform ==
  \A level \in GenLevels, draws \in RescaleSamples :
    LET generated == generate_random_scenario(level, draws).tasks
        factor == RDiv(generated[1].duration, draws[1].duration)
    IN \A i \in DOMAIN draws :
         /\ generated[i].duration = RMul(draws[i].duration, factor)
         /\ generated[i].energy =
              RMul(RDiv(RMul(R(power_map[draws[i].type_index]),
                             draws[i].duration), R(1000)), factor)

\* C22: within one trial every policy sees the identical scenario.  The
\* rescaling multiplies the energy and the duration of every task by one
\* and the same factor, and no policy run (scheduler plus
\* simulate_task_execution) changes the order of the scenario's task list,
\* a field of a task or the energy level.
C22_SameScenarioForAll ==
  /\ []RescalingUniform
  /\ [][scenario' = scenario]_vars

\* All six policies have run on a scenario of two tasks that two of them
\* ordered differently from the scenario's list.
C22_Witness ==
  /\ algorithm = "OurAlgorithm"
  /\ Len(trial_results) = 6
  /\ Len(scenario.tasks) = 2
  /\ ordered_tasks # scenario.tasks
  /\ energy_greedy_scheduler(scenario.tasks) # scenario.tasks

\* The order prioritize_tasks gives the run's task list when it is called
\* in the present state.
OrderNow ==
  Sorted(tasks, [id \in Range(tasks) |->
                   PriorityCost(task[id], EnergyCostOf(task[id]))])

\* C23: producing the order of a run changes neither the battery level
\* nor completed_tasks, deferred_tasks or the execution log, and leaves
\* the caller's list in its order; and the order does not depend on the
\* battery level: at every later battery level of the run, ordering the
\* same list again gives the order the run is executing.
C23_PoliciesPure ==
  /\ [][pc = "prioritize" =>
          /\ current_battery_level' = current_battery_level
          /\ completed_tasks' = completed_tasks
          /\ deferred_tasks' = deferred_tasks
          /\ mission_log' = mission_log
          /\ tasks' = tasks]_vars
  /\ [](Prioritized => prioritized_tasks = OrderNow)

\* A run over terrain has reordered its tasks and completed one of them,
\* so the battery level is no longer the one the order was produced at.
C23_Witness ==
  /\ pc = "execute"
  /\ terrain # NoTerrain
  /\ prioritized_tasks # tasks
  /\ completed_tasks # <<>>
  /\ current_battery_level # start_level

\* The battery level stated for the end of the run's traversal: the full
\* battery less the whole traversal energy as a fraction of the capacity.
StatedLevelAfterTraversal ==
  RSub(R(1), RDiv(RSum(terrain[1]), Rat(4224, 100)))

\* C24: in a run over terrain the whole traversal energy, as a fraction
\* of the battery capacity, is off the battery before the first task is
\* evaluated: the level the loop is entered with, the level the first
\* execute_task call finds and the level of a critical-energy halt at the
\* first position are all the post-traversal level, which is also
\* traversal_summary.battery_level_after.
C24_TraversalFirst ==
  (terrain # NoTerrain /\ pc \in {"prioritize", "execute", "stats", "done"}) =>
    /\ traversal_summary # <<>>
    /\ traversal_summary[1].battery_level_after = StatedLevelAfterTraversal
    /\ pc = "prioritize" => current_battery_level = StatedLevelAfterTraversal
    /\ Prioritized => start_level = StatedLevelAfterTraversal
    /\ (pc = "execute" /\ idx = 1) =>
         current_battery_level = StatedLevelAfterTraversal
    /\ (CallInRun /\ idx = 2) =>
         last_call[1].battery_before = StatedLevelAfterTraversal
    /\ (Prioritized /\ halt_idx = 1) =>
         /\ current_battery_level = StatedLevelAfterTraversal
         /\ RLeq(StatedLevelAfterTraversal, Rat(10, 100))

\* After a traversal the first task of the order was deferred although it
\* fits a full battery.
C24_Witness ==
  /\ terrain # NoTerrain
  /\ CallInRun
  /\ idx = 2
  /\ ~last_call[1].returned
  /\ CanExecuteAt(R(1), last_call[1].energy_cost)
  /\ RLt(R(0), last_call[1].energy_cost)

\* C25: a run whose list holds a task of a type absent from the power
\* mapping ends with the unknown-type error during prioritization, and a
\* run that ends this way leaves nothing partial: the step that raises
\* sets no completed or deferred flag, and when the error propagates
\* completed_tasks, deferred_tasks and the execution log are empty, no
\* task of the list of a first run is marked completed or deferred, and
\* no result record exists.
C25_UnknownTypeAborts ==
  /\ []((\E id \in Range(tasks) : task[id].task_type \notin DOMAIN StatedPower) =>
          pc \in {"idle", "prioritize", "failed"})
  /\ [](pc = "failed" =>
          /\ \E id \in Range(tasks) : task[id].task_type \notin DOMAIN StatedPower
          /\ completed_tasks = <<>>
          /\ deferred_tasks = <<>>
          /\ mission_log = <<>>
          /\ mission_results = <<>>
          /\ runs = 1 => \A id \in Range(tasks) :
                            ~task[id].completed /\ ~task[id].deferred)
  /\ [][pc' = "failed" =>
          \A id \in TaskIds :
            /\ task'[id].completed = task[id].completed
            /\ task'[id].deferred = task[id].deferred]_vars

\* A run over terrain on three tasks, the last of unknown type, has
\* ended with the error after the costs of the first two were computed.
C25_Witness ==
  /\ pc = "failed"
  /\ terrain # NoTerrain
  /\ Len(tasks) = 3
  /\ task[tasks[3]].task_type \notin DOMAIN StatedPower
  /\ task[tasks[1]].energy_cost # R(0)

\* The number of positions of sequence s that hold x.
Occurrences(s, x) == Cardinality({i \in DOMAIN s : s[i] = x})

\* C26: when a run on a list of distinct, freshly created tasks has
\* returned, every task of the list is once in completed_tasks or once in
\* deferred_tasks and not in both, no task carries both flags, the two
\* counts add up to total_tasks, and completion_rate is the completed
\* count over total_tasks (0 for an empty list), with or without a
\* critical-energy halt.
C26_EveryTaskOnce ==
  (pc = "done" /\ runs = 1) =>
    LET res == mission_results[1]
        s == res.mission_summary
    IN /\ \A id \in Range(tasks) :
            /\ Occurrences(res.completed_tasks, id)
                 + Occurrences(res.deferred_tasks, id) = 1
            /\ ~(task[id].completed /\ task[id].deferred)
            /\ task[id].completed <=> Occurrences(res.completed_tasks, id) = 1
            /\ task[id].deferred <=> Occurrences(res.deferred_tasks, id) = 1
       /\ Range(res.completed_tasks) \cup Range(res.deferred_tasks) = Range(tasks)
       /\ s.total_tasks = Len(tasks)
       /\ s.completed_tasks = Len(res.completed_tasks)
       /\ s.deferred_tasks = Len(res.deferred_tasks)
       /\ s.completed_tasks + s.deferred_tasks = s.total_tasks
       /\ s.completion_rate =
            IF Len(tasks) = 0 THEN R(0) ELSE Rat(s.completed_tasks, Len(tasks))

\* A first run on three tasks has returned after a critical-energy halt
\* at the first position.
C26_Witness ==
  /\ pc = "done"
  /\ runs = 1
  /\ Len(tasks) = 3
  /\ halt_idx = 1
  /\ Len(mission_results[1].deferred_tasks) = 3

\* The summed energy cost of the tasks the run has completed so far.
CompletedEnergy ==
  RSum([i \in DOMAIN completed_tasks |-> task[completed_tasks[i]].energy_cost])

\* The benchmark's execution of the first k tasks of the run's order at
\* energy level `level`.
BenchPrefixRun(k, level) ==
  simulate_task_execution(BenchView(SubSeq(prioritized_tasks, 1, k)), level)

\* The usable energy stated for the benchmark at a level, floored at 0.
StatedBenchUsable(level) == RMax(R(0), StatedUsable(level))

\* C27: the hard energy budget.  At every point of a run the energy costs
\* of the completed tasks sum to at most
\* max(0, b * 42.24 - 42.24 * 0.20), b being the battery level the loop was
\* entered with (after the traversal).  The benchmark's execution of the
\* same tasks, at the same level and at the level 0.05, uses task energy
\* of at most the initial usable energy, and after every task of the order
\* the usable energy left is not negative.
C27_HardEnergyBudget ==
  Prioritized =>
    /\ RLeq(CompletedEnergy, StatedAvailable(start_level))
    /\ \A level \in {start_level, Rat(5, 100)} :
         \A k \in 0..Len(prioritized_tasks) :
           LET used == RSub(BenchPrefixRun(k, level).total_energy, Rat(61, 1000))
           IN /\ used = RSum([i \in DOMAIN BenchPrefixRun(k, level).completed_tasks |->
                                BenchPrefixRun(k, level).completed_tasks[i].energy])
              /\ RLeq(used, StatedBenchUsable(level))
              /\ RLeq(R(0), RSub(StatedBenchUsable(level), used))

\* A run over terrain has completed two tasks and deferred a third whose
\* cost would have taken the sum over the budget.
C27_Witness ==
  /\ pc = "done"
  /\ terrain # NoTerrain
  /\ Len(completed_tasks) = 2
  /\ RLt(R(0), CompletedEnergy)
  /\ \E i \in DOMAIN deferred_tasks :
       RLt(StatedAvailable(start_level),
           RAdd(CompletedEnergy, task[deferred_tasks[i]].energy_cost))

\* C28 (as stated): after every completed task the battery level is at
\* least the reserve ratio 0.20; a run without terrain never takes the
\* critical-energy halt; and a run takes the halt only when the traversal
\* has left the battery at or below the critical level.
C28_ReserveKept ==
  /\ \A i \in DOMAIN mission_log :
       RLeq(Rat(20, 100), mission_log[i].battery_level_after)
  /\ (Prioritized /\ terrain = NoTerrain) => halt_idx = 0
  /\ (Prioritized /\ halt_idx > 0) =>
       /\ terrain # NoTerrain
       /\ RLeq(start_level, Rat(10, 100))

\* C29 (as stated): in every state of a run, directly after the traversal
\* too, the battery level is in [0, 1]; in the result
\* final_battery_level is in [0, 1] and total_energy_consumed_kwh is at
\* most the battery capacity 42.24.
C29_LevelIsFraction ==
  /\ RLeq(R(0), current_battery_level)
  /\ RLeq(current_battery_level, R(1))
  /\ pc = "done" =>
       LET s == mission_results[1].mission_summary
       IN /\ RLeq(R(0), s.final_battery_level)
          /\ RLeq(s.final_battery_level, R(1))
          /\ RLeq(s.total_energy_consumed_kwh, Rat(4224, 100))

\* The number of tasks simulate_task_execution completes for an order of
\* the scenario's tasks.
CompletedCount(ordered) ==
  Len(simulate_task_execution(ordered, scenario.energy_level).completed_tasks)

\* The number the EnergyGreedy order completes on the scenario.
GreedyCount == CompletedCount(energy_greedy_scheduler(scenario.tasks))

\* C30: on every scenario the EnergyGreedy order completes at least as
\* many tasks as any other order of the same tasks at the same energy
\* level; the completion rate of every policy run in the trial, FIFO,
\* UrgencyFirst, Random, WSPT and the multi-criteria scheduler included,
\* is at most EnergyGreedy's.
C30_GreedyCompletesMost ==
  /\ \A ordered \in Perms(scenario.tasks) : CompletedCount(ordered) <= GreedyCount
  /\ test_result # <<>> =>
       /\ Len(execution_result[1].completed_tasks) <= GreedyCount
       /\ RLeq(test_result[1].completion_rate,
               RMul(Rat(GreedyCount, Len(scenario.tasks)), R(100)))
       /\ algorithm = "EnergyGreedy" =>
            Len(execution_result[1].completed_tasks) = GreedyCount

\* The multi-criteria scheduler has completed one task of three where the
\* EnergyGreedy order completes two.
C30_Witness ==
  /\ algorithm = "OurAlgorithm"
  /\ test_result # <<>>
  /\ Len(scenario.tasks) = 3
  /\ Len(execution_result[1].completed_tasks) = 1
  /\ GreedyCount = 2

====
